---- MODULE Spec2Model ----
(***************************************************************************)
(* A model of mprisqueeze: the LMS control client and its error channel,   *)
(* the MPRIS playback-mode poller, and the UDP discovery of the server.    *)
(*                                                                         *)
(* Rust Strings are modelled as sequences of UTF-8 code units (integers in *)
(* 0..255); the names of JSON object keys are TLA+ strings.                *)
(***************************************************************************)
EXTENDS Integers, Sequences, FiniteSets, TLC

(***************************************************************************)
(* Bounds of the model.                                                    *)
(***************************************************************************)
\* number of iterations of the polling loop that are explored
MaxPolls == 5
\* number of those explored together with the D-Bus requests
MaxRunPolls == 1
\* largest per-attempt reply timeout of discover, in clock ticks
MaxReplyTimeout == 2
\* largest overall discovery deadline, in clock ticks
MaxDiscoverTimeout == 4
\* number of datagrams that reach the socket of discover
MaxDatagrams == 2

(***************************************************************************)
(* Results: Rust's Result<T>, Ok(v) or Err(e).                             *)
(***************************************************************************)
Ok(v) == [ok |-> TRUE, val |-> v]
Err(e) == [ok |-> FALSE, err |-> e]

(***************************************************************************)
(* Text literals of the source, as UTF-8 code units.                       *)
(***************************************************************************)
S_stop == <<115, 116, 111, 112>>
S_play == <<112, 108, 97, 121>>
S_pause == <<112, 97, 117, 115, 101>>
S_0 == <<48>>
S_1 == <<49>>
S_2 == <<50>>
S_3 == <<51>>

(***************************************************************************)
(* serde_json::Value.  A number is an integer n, or a non-integer (float). *)
(***************************************************************************)
JNull == [t |-> "null"]
JBool(b) == [t |-> "bool", b |-> b]
JNum(n) == [t |-> "number", int |-> TRUE, n |-> n]
JFloat == [t |-> "number", int |-> FALSE, n |-> 0]
JStr(s) == [t |-> "string", s |-> s]
JArr(a) == [t |-> "array", a |-> a]
JObj(o) == [t |-> "object", o |-> o]
EmptyMap == [k \in {} |-> JNull]
OneField(k, v) == [f \in {k} |-> v]

(***************************************************************************)
(* lms/request.rs: the requests and the result field each one reads.       *)
(***************************************************************************)
LmsRequest_new(name) == [method |-> "slim.request", params |-> <<name, <<>>>>]
add_param(req, param) ==
    [req EXCEPT !.params = <<req.params[1], Append(req.params[2], param)>>]
\* question as it would be if the field were looked up under the name asked for
question_BareKey(req, key) ==
    <<add_param(add_param(req, key), "?"), key>>

question(req, key) ==
    <<add_param(add_param(req, key), "?"), "_" \o key>>
playlist(name) == add_param(LmsRequest_new(name), "playlist")
Req_version == question(LmsRequest_new(""), "version")
Req_connected(name) == question(LmsRequest_new(name), "connected")
Req_players ==
    <<add_param(add_param(LmsRequest_new(""), "players"), "0"), "players_loop">>
Req_player_count == question(add_param(LmsRequest_new(""), "player"), "count")
Req_artist(name) == question(LmsRequest_new(name), "artist")
Req_title(name) == question(LmsRequest_new(name), "title")
Req_album(name) == question(LmsRequest_new(name), "album")
Req_mode(name) == question(LmsRequest_new(name), "mode")
Req_shuffle(name) == question(playlist(name), "shuffle")
Req_index(name) == question(playlist(name), "index")
Req_track_count(name) == question(playlist(name), "tracks")
Req_play(name) == add_param(LmsRequest_new(name), "play")
Req_stop(name) == add_param(LmsRequest_new(name), "stop")
Req_pause(name) == add_param(add_param(LmsRequest_new(name), "pause"), "1")
Req_play_pause(name) == add_param(LmsRequest_new(name), "pause")
Req_previous(name) == add_param(add_param(playlist(name), "index"), "-1")
Req_next(name) == add_param(add_param(playlist(name), "index"), "+1")

(***************************************************************************)
(* The HTTP exchange.  A reply of the server is a transport failure, a     *)
(* body that does not deserialize as LmsResponse, or an LmsResponse whose  *)
(* result field holds a JSON value.                                        *)
(***************************************************************************)
TransportFailure == [kind |-> "transport"]
Undecodable == [kind |-> "undecodable"]
Body(result) == [kind |-> "body", result |-> result]

\* LmsClient::post
post(request, reply) ==
    IF reply.kind = "transport" THEN Err("Transport")
    ELSE IF reply.kind = "undecodable" THEN Err("Decode")
    ELSE Ok([result |-> reply.result])

\* LmsClient::post_no_result
post_no_result(request, reply) ==
    LET r == post(request, reply) IN IF r.ok THEN Ok("unit") ELSE r

(***************************************************************************)
(* The typed extractors of lms/mod.rs.                                     *)
(***************************************************************************)
\* result_field as it would be if a result that is no object were read as an
\* object without fields
result_field_NoObjectIsEmpty(response, field) ==
    IF response.result.t # "object" THEN Err("NoField")
    ELSE IF field \notin DOMAIN response.result.o THEN Err("NoField")
    ELSE Ok(response.result.o[field])

result_field(response, field) ==
    IF response.result.t # "object" THEN Err("ResultHasWrongType")
    ELSE IF field \notin DOMAIN response.result.o THEN Err("NoField")
    ELSE Ok(response.result.o[field])

\* Number::as_i64 and Number::as_u64: None is modelled as Err
as_i64(num) == IF num.int THEN Ok(num.n) ELSE Err("NotAnI64")
as_u64_number(num) == IF num.int /\ num.n >= 0 THEN Ok(num.n) ELSE Err("NotAnU64")

IsDigit(c) == c >= 48 /\ c <= 57

RECURSIVE DigitsValue(_, _)
\* the value of a sequence of decimal digits, or -1 once it exceeds max
DigitsValue(digits, max) ==
    IF digits = <<>> THEN 0
    ELSE LET front == DigitsValue(SubSeq(digits, 1, Len(digits) - 1), max)
             d == digits[Len(digits)] - 48
         IN IF front < 0 \/ front > (max - d) \div 10 THEN -1 ELSE front * 10 + d

\* str::parse for an unsigned integer type whose largest value is max: an
\* optional '+', then one or more decimal digits, no overflow
ParseUnsigned(s, max) ==
    LET digits == IF s # <<>> /\ s[1] = 43 THEN Tail(s) ELSE s
    IN IF digits = <<>> THEN Err("ParseIntError")
       ELSE IF \E i \in 1..Len(digits) : ~IsDigit(digits[i]) THEN Err("ParseIntError")
       ELSE LET v == DigitsValue(digits, max)
            IN IF v < 0 THEN Err("ParseIntError") ELSE Ok(v)

\* u64::MAX is beyond the integers of the model checker; its largest integer
\* stands for it, and the texts and numbers of the model stay below it
U64Max == (2 ^ 30 - 1) * 2 + 1

\* as_bool as it would be if only the number 1 were true
as_bool_OnlyOneIsTrue(response, field) ==
    LET f == result_field(response, field)
    IN IF ~f.ok THEN f
       ELSE IF f.val.t = "number"
            THEN (LET i == as_i64(f.val) IN IF i.ok THEN Ok(i.val = 1) ELSE i)
            ELSE Err("WrongTopLevelType")

as_bool(response, field) ==
    LET f == result_field(response, field)
    IN IF ~f.ok THEN f
       ELSE IF f.val.t = "number"
            THEN (LET i == as_i64(f.val) IN IF i.ok THEN Ok(i.val # 0) ELSE i)
            ELSE Err("WrongTopLevelType")

\* as_u64 as it would be if it read numbers only
as_u64_NumberOnly(response, field) ==
    LET f == result_field(response, field)
    IN IF ~f.ok THEN f
       ELSE IF f.val.t = "number" THEN as_u64_number(f.val)
       ELSE Err("WrongTopLevelType")

as_u64(response, field) ==
    LET f == result_field(response, field)
    IN IF ~f.ok THEN f
       ELSE IF f.val.t = "string" THEN ParseUnsigned(f.val.s, U64Max)
       ELSE IF f.val.t = "number" THEN as_u64_number(f.val)
       ELSE Err("WrongTopLevelType")

as_string(response, field) ==
    LET f == result_field(response, field)
    IN IF ~f.ok THEN f
       ELSE IF f.val.t = "string" THEN Ok(f.val.s)
       ELSE Err("WrongTopLevelType")

\* Option<String>: Some(s) is [some |-> TRUE, s |-> s]
None == [some |-> FALSE]
Some(s) == [some |-> TRUE, s |-> s]

\* as_string_or_not_there as it would be if the missing field stayed an error
as_string_or_not_there_NoFieldFails(response, field) ==
    LET r == as_string(response, field)
    IN IF r.ok THEN Ok(Some(r.val)) ELSE r

as_string_or_not_there(response, field) ==
    LET r == as_string(response, field)
    IN IF r.ok THEN Ok(Some(r.val))
       ELSE IF r.err = "NoField" THEN Ok(None)
       ELSE r

\* as_mode as it would be if a string that is no mode were read as Stop
as_mode_DefaultStop(response, field) ==
    LET f == result_field(response, field)
    IN IF ~f.ok THEN f
       ELSE IF f.val.t = "string"
            THEN (IF f.val.s = S_play THEN Ok("Play")
                  ELSE IF f.val.s = S_pause THEN Ok("Pause")
                  ELSE Ok("Stop"))
            ELSE Err("WrongTopLevelType")

as_mode(response, field) ==
    LET f == result_field(response, field)
    IN IF ~f.ok THEN f
       ELSE IF f.val.t = "string"
            THEN (IF f.val.s = S_stop THEN Ok("Stop")
                  ELSE IF f.val.s = S_play THEN Ok("Play")
                  ELSE IF f.val.s = S_pause THEN Ok("Pause")
                  ELSE Err("ExpectedStopPlayPause"))
            ELSE Err("WrongTopLevelType")

\* as_shuffle as it would be if a value that is none of 0, 1, 2 were read as Off
as_shuffle_DefaultOff(response, field) ==
    LET f == result_field(response, field)
    IN IF ~f.ok THEN f
       ELSE IF f.val.t = "string"
            THEN (IF f.val.s = S_1 THEN Ok("Songs")
                  ELSE IF f.val.s = S_2 THEN Ok("Albums")
                  ELSE Ok("Off"))
       ELSE IF f.val.t = "number"
            THEN (LET u == as_u64_number(f.val)
                  IN IF u.ok /\ u.val = 1 THEN Ok("Songs")
                     ELSE IF u.ok /\ u.val = 2 THEN Ok("Albums")
                     ELSE Ok("Off"))
       ELSE Err("WrongTopLevelType")

as_shuffle(response, field) ==
    LET f == result_field(response, field)
    IN IF ~f.ok THEN f
       ELSE IF f.val.t = "string"
            THEN (IF f.val.s = S_0 THEN Ok("Off")
                  ELSE IF f.val.s = S_1 THEN Ok("Songs")
                  ELSE IF f.val.s = S_2 THEN Ok("Albums")
                  ELSE Err("Expected012"))
       ELSE IF f.val.t = "number"
            THEN (LET u == as_u64_number(f.val)
                  IN IF u.ok /\ u.val = 0 THEN Ok("Off")
                     ELSE IF u.ok /\ u.val = 1 THEN Ok("Songs")
                     ELSE IF u.ok /\ u.val = 2 THEN Ok("Albums")
                     ELSE Err("Expected012"))
       ELSE Err("WrongTopLevelType")

\* serde_json::from_value::<Vec<Player>>: an array of objects that each hold the
\* strings name and playerid
IsPlayer(v) ==
    /\ v.t = "object"
    /\ {"name", "playerid"} \subseteq DOMAIN v.o
    /\ v.o["name"].t = "string"
    /\ v.o["playerid"].t = "string"
\* get_players as it would be if a result without the field were a server
\* without players
as_players_AbsentIsEmpty(response, field) ==
    LET f == result_field(response, field)
    IN IF ~f.ok THEN (IF f.err = "NoField" THEN Ok(<<>>) ELSE f)
       ELSE IF f.val.t # "array" THEN Err("SerdeError")
       ELSE IF \E i \in 1..Len(f.val.a) : ~IsPlayer(f.val.a[i]) THEN Err("SerdeError")
       ELSE Ok([i \in 1..Len(f.val.a) |->
                  [name |-> f.val.a[i].o["name"].s, playerid |-> f.val.a[i].o["playerid"].s]])

as_players(response, field) ==
    LET f == result_field(response, field)
    IN IF ~f.ok THEN f
       ELSE IF f.val.t # "array" THEN Err("SerdeError")
       ELSE IF \E i \in 1..Len(f.val.a) : ~IsPlayer(f.val.a[i]) THEN Err("SerdeError")
       ELSE Ok([i \in 1..Len(f.val.a) |->
                  [name |-> f.val.a[i].o["name"].s, playerid |-> f.val.a[i].o["playerid"].s]])

(***************************************************************************)
(* The operations of LmsClient: what the closure handed to handle_error    *)
(* evaluates to for a reply of the server, and the error the caller gets.  *)
(***************************************************************************)
Query(rq, reply, Extract(_, _)) ==
    LET r == post(rq[1], reply) IN IF ~r.ok THEN r ELSE Extract(r.val, rq[2])

QueryOps == {"get_version", "get_connected", "get_player_count", "get_players",
             "get_index", "get_track_count", "get_shuffle", "get_mode",
             "get_artist", "get_title", "get_album"}
CommandOps == {"play", "stop", "pause", "play_pause", "previous", "next"}
Ops == QueryOps \cup CommandOps

Inner(op, name, reply) ==
    CASE op = "get_version" -> Query(Req_version, reply, as_string)
      [] op = "get_connected" -> Query(Req_connected(name), reply, as_bool)
      [] op = "get_player_count" -> Query(Req_player_count, reply, as_u64)
      [] op = "get_players" -> Query(Req_players, reply, as_players)
      [] op = "get_index" -> Query(Req_index(name), reply, as_u64)
      [] op = "get_track_count" -> Query(Req_track_count(name), reply, as_u64)
      [] op = "get_shuffle" -> Query(Req_shuffle(name), reply, as_shuffle)
      [] op = "get_mode" -> Query(Req_mode(name), reply, as_mode)
      [] op = "get_artist" -> Query(Req_artist(name), reply, as_string_or_not_there)
      [] op = "get_title" -> Query(Req_title(name), reply, as_string_or_not_there)
      [] op = "get_album" -> Query(Req_album(name), reply, as_string_or_not_there)
      [] op = "play" -> post_no_result(Req_play(name), reply)
      [] op = "stop" -> post_no_result(Req_stop(name), reply)
      [] op = "pause" -> post_no_result(Req_pause(name), reply)
      [] op = "play_pause" -> post_no_result(Req_play_pause(name), reply)
      [] op = "previous" -> post_no_result(Req_previous(name), reply)
      [] op = "next" -> post_no_result(Req_next(name), reply)

\* the anyhow!("Error ...") each operation hands to handle_error
OpError(op) ==
    IF op = "get_player_count" THEN "Error player_count" ELSE "Error " \o op

(***************************************************************************)
(* The result field a query reads, and the replies of the server the model *)
(* draws for an operation: the two failures of the exchange, results that  *)
(* are no object, objects without the field, and objects that hold the     *)
(* field with a value of each JSON kind.                                   *)
(***************************************************************************)
FieldOf(op) ==
    CASE op = "get_version" -> Req_version[2]
      [] op = "get_connected" -> Req_connected("")[2]
      [] op = "get_player_count" -> Req_player_count[2]
      [] op = "get_players" -> Req_players[2]
      [] op = "get_index" -> Req_index("")[2]
      [] op = "get_track_count" -> Req_track_count("")[2]
      [] op = "get_shuffle" -> Req_shuffle("")[2]
      [] op = "get_mode" -> Req_mode("")[2]
      [] op = "get_artist" -> Req_artist("")[2]
      [] op = "get_title" -> Req_title("")[2]
      [] op = "get_album" -> Req_album("")[2]
      [] OTHER -> "none"

S_name == <<83, 113>>
S_id == <<97, 98, 99>>
APlayer == JObj([k \in {"name", "playerid"} |-> IF k = "name" THEN JStr(S_name) ELSE JStr(S_id)])

FieldValues ==
    {JNull, JNum(0), JNum(1), JStr(S_stop), JStr(S_play), JStr(S_pause), JStr(S_1)}

NonObjects == {JNull, JBool(FALSE), JNum(1), JStr(S_play), JArr(<<APlayer>>)}

\* the replies whose result is an object that holds the field the query reads
FieldReplies(op) == {Body(JObj(OneField(FieldOf(op), v))) : v \in FieldValues}

\* the kinds of failure a server can exhibit
Faults == {"transport", "undecodable", "not an object", "missing key", "wrong type"}

\* the replies by which a server exhibits a failure of kind f to operation op
FaultReplies(f, op) ==
    CASE f = "transport" -> {TransportFailure}
      [] f = "undecodable" -> {Undecodable}
      [] f = "not an object" -> {Body(v) : v \in NonObjects}
      [] f = "missing key" ->
            {Body(JObj(EmptyMap)), Body(JObj(OneField("other", JStr(S_play))))}
      [] f = "wrong type" -> {r \in FieldReplies(op) : ~Inner(op, "", r).ok}

\* the replies of a server in working order
GoodReplies(op) == {r \in FieldReplies(op) : Inner(op, "", r).ok}

\* the replies to op of a server that is, in this run, subject to failure f
Replies(f, op) == GoodReplies(op) \cup FaultReplies(f, op)

\* values of every JSON kind, for the replies of a server of which nothing is
\* assumed
S_empty == <<>>
S_Stop == <<83, 116, 111, 112>>
S_plus1 == <<43, 49>>
S_01 == <<48, 49>>
S_minus1 == <<45, 49>>
WideValues ==
    FieldValues \cup
    {JNum(2), JNum(3), JNum(-1), JFloat, JBool(TRUE), JBool(FALSE), JStr(S_0),
     JStr(S_2), JStr(S_3), JStr(S_empty), JArr(<<>>), JArr(<<APlayer>>),
     JObj(EmptyMap), JStr(S_Stop), JStr(S_plus1), JStr(S_01), JStr(S_minus1)}

\* every reply the model has for operation op
\* the request of a query
RequestOf(op) ==
    CASE op = "get_version" -> Req_version[1]
      [] op = "get_connected" -> Req_connected("")[1]
      [] op = "get_player_count" -> Req_player_count[1]
      [] op = "get_players" -> Req_players[1]
      [] op = "get_index" -> Req_index("")[1]
      [] op = "get_track_count" -> Req_track_count("")[1]
      [] op = "get_shuffle" -> Req_shuffle("")[1]
      [] op = "get_mode" -> Req_mode("")[1]
      [] op = "get_artist" -> Req_artist("")[1]
      [] op = "get_title" -> Req_title("")[1]
      [] op = "get_album" -> Req_album("")[1]

\* the queries whose request ends with a question mark, and the attribute each
\* asks for: the parameter before the question mark
QuestionOps ==
    {op \in QueryOps : RequestOf(op).params[2][Len(RequestOf(op).params[2])] = "?"}
AttributeOf(op) ==
    LET ps == RequestOf(op).params[2] IN ps[Len(ps) - 1]

\* the replies that hold a value under the name of the attribute itself, alone
\* or beside another value under the field the query reads
BareReplies(op) ==
    IF op \notin QuestionOps THEN {}
    ELSE {Body(JObj(OneField(AttributeOf(op), v))) : v \in FieldValues}
         \cup {Body(JObj([k \in {AttributeOf(op), FieldOf(op)} |->
                            IF k = FieldOf(op) THEN v ELSE JStr(S_3)])) :
                   v \in FieldValues}

AllReplies(op) ==
    UNION {FaultReplies(f, op) : f \in Faults}
       \cup {Body(JObj(OneField(FieldOf(op), v))) : v \in WideValues}
       \cup BareReplies(op)

(***************************************************************************)
(* discover.rs: the reply of the server to the discovery probe, and its    *)
(* parser.  A reply is a run of fields: a tag, one byte of length, and     *)
(* that many bytes of UTF-8 text.                                          *)
(***************************************************************************)
T_ENAME == <<69, 78, 65, 77, 69>>
T_JSON == <<74, 83, 79, 78>>
T_UUID == <<85, 85, 73, 68>>
T_VERS == <<86, 69, 82, 83>>

\* "eNAME\0JSON\0UUID\0VERS\0"
ProbeMessage ==
    <<101, 78, 65, 77, 69, 0>> \o T_JSON \o <<0>> \o T_UUID \o <<0>> \o T_VERS \o <<0>>

\* let mut buffer = [0; 1024]
BufferSize == 1024

\* u16::MAX
U16Max == 65535

\* what recv_from leaves in the buffer: the datagram, cut to the size of the
\* buffer, and the zeros the buffer was made of after it
Buffer(payload) ==
    [i \in 1..BufferSize |-> IF i <= Len(payload) THEN payload[i] ELSE 0]

IsCont(b) == b >= 128 /\ b <= 191

\* the number of bytes of the character that begins with byte b, 0 if
\* no character begins with it
CharLen(b) ==
    IF b <= 127 THEN 1
    ELSE IF b >= 194 /\ b <= 223 THEN 2
    ELSE IF b >= 224 /\ b <= 239 THEN 3
    ELSE IF b >= 240 /\ b <= 244 THEN 4
    ELSE 0

\* whether String::from_utf8 accepts the bytes: every byte begins a character
\* or continues one, a character has all its continuation bytes, is in its
\* shortest form, is no surrogate and is at most U+10FFFF
from_utf8_ok(bytes) ==
    LET n == Len(bytes)
    IN \A i \in 1..n :
          LET b == bytes[i]
          IN IF IsCont(b)
             THEN \E j \in 1..3 : i - j >= 1 /\ CharLen(bytes[i - j]) > j
             ELSE /\ CharLen(b) > 0
                  /\ i + CharLen(b) - 1 <= n
                  /\ \A k \in 1..(CharLen(b) - 1) : IsCont(bytes[i + k])
                  /\ b = 224 => bytes[i + 1] >= 160
                  /\ b = 237 => bytes[i + 1] <= 159
                  /\ b = 240 => bytes[i + 1] >= 144
                  /\ b = 244 => bytes[i + 1] <= 143

\* the result of a parser that succeeds: the input left and the value
Parsed(rest, val) == Ok([rest |-> rest, val |-> val])

\* parse_tag as it would be if the length were read as a signed byte
parse_tag_SignedLength(input, start_tag) ==
    LET t == Len(start_tag)
    IN IF Len(input) < t \/ SubSeq(input, 1, t) # start_tag THEN Err("Tag")
       ELSE IF Len(input) < t + 1 THEN Err("Eof")
       ELSE LET n == input[t + 1]
            IN IF n > 127 \/ Len(input) < t + 1 + n THEN Err("Eof")
               ELSE LET bytes == SubSeq(input, t + 2, t + 1 + n)
                    IN IF from_utf8_ok(bytes)
                       THEN Parsed(SubSeq(input, t + 2 + n, Len(input)), bytes)
                       ELSE Err("MapRes")

\* parse_tag as it would be if a value that is cut short were taken as it is
parse_tag_TakeWhatIsLeft(input, start_tag) ==
    LET t == Len(start_tag)
    IN IF Len(input) < t \/ SubSeq(input, 1, t) # start_tag THEN Err("Tag")
       ELSE LET n == IF Len(input) < t + 1 THEN 0 ELSE input[t + 1]
                last == IF Len(input) < t + 1 + n THEN Len(input) ELSE t + 1 + n
                bytes == SubSeq(input, t + 2, last)
            IN IF from_utf8_ok(bytes)
               THEN Parsed(SubSeq(input, last + 1, Len(input)), bytes)
               ELSE Err("MapRes")

\* preceded(tag(start_tag), flat_map(be_u8, take)), then String::from_utf8
parse_tag(input, start_tag) ==
    LET t == Len(start_tag)
    IN IF Len(input) < t \/ SubSeq(input, 1, t) # start_tag THEN Err("Tag")
       ELSE IF Len(input) < t + 1 THEN Err("Eof")
       ELSE LET n == input[t + 1]
            IN IF Len(input) < t + 1 + n THEN Err("Eof")
               ELSE LET bytes == SubSeq(input, t + 2, t + 1 + n)
                    IN IF from_utf8_ok(bytes)
                       THEN Parsed(SubSeq(input, t + 2 + n, Len(input)), bytes)
                       ELSE Err("MapRes")

parse_hostname(input) == parse_tag(input, T_ENAME)

\* parse_port as it would be if a number too large for 16 bits wrapped around
parse_port_Wraps(input) ==
    LET p == parse_tag(input, T_JSON)
    IN IF ~p.ok THEN p
       ELSE LET v == ParseUnsigned(p.val.val, U64Max)
            IN IF v.ok THEN Parsed(p.val.rest, v.val % (U16Max + 1)) ELSE Err("MapRes")

parse_port(input) ==
    LET p == parse_tag(input, T_JSON)
    IN IF ~p.ok THEN p
       ELSE LET v == ParseUnsigned(p.val.val, U16Max)
            IN IF v.ok THEN Parsed(p.val.rest, v.val) ELSE Err("MapRes")

parse_uuid(input) == parse_tag(input, T_UUID)

parse_version(input) == parse_tag(input, T_VERS)

\* parse_reply as it would be if the version were optional
parse_reply_VersionOptional(input) ==
    LET hostname == parse_hostname(input)
    IN IF ~hostname.ok THEN hostname
       ELSE LET port == parse_port(hostname.val.rest)
            IN IF ~port.ok THEN port
               ELSE LET uuid == parse_uuid(port.val.rest)
                    IN IF ~uuid.ok THEN uuid
                       ELSE LET version == parse_version(uuid.val.rest)
                            IN Parsed(IF version.ok THEN version.val.rest
                                      ELSE uuid.val.rest,
                                      [hostname |-> hostname.val.val,
                                       port |-> port.val.val,
                                       uuid |-> uuid.val.val,
                                       version |-> IF version.ok THEN version.val.val
                                                   ELSE <<>>])

\* parse_reply as it would be if it required the input to end with the version
parse_reply_AllConsuming(input) ==
    LET hostname == parse_hostname(input)
    IN IF ~hostname.ok THEN hostname
       ELSE LET port == parse_port(hostname.val.rest)
            IN IF ~port.ok THEN port
               ELSE LET uuid == parse_uuid(port.val.rest)
                    IN IF ~uuid.ok THEN uuid
                       ELSE LET version == parse_version(uuid.val.rest)
                            IN IF ~version.ok THEN version
                               ELSE IF version.val.rest # <<>> THEN Err("Eof")
                               ELSE Parsed(version.val.rest,
                                           [hostname |-> hostname.val.val,
                                            port |-> port.val.val,
                                            uuid |-> uuid.val.val,
                                            version |-> version.val.val])

parse_reply(input) ==
    LET hostname == parse_hostname(input)
    IN IF ~hostname.ok THEN hostname
       ELSE LET port == parse_port(hostname.val.rest)
            IN IF ~port.ok THEN port
               ELSE LET uuid == parse_uuid(port.val.rest)
                    IN IF ~uuid.ok THEN uuid
                       ELSE LET version == parse_version(uuid.val.rest)
                            IN IF ~version.ok THEN version
                               ELSE Parsed(version.val.rest,
                                           [hostname |-> hostname.val.val,
                                            port |-> port.val.val,
                                            uuid |-> uuid.val.val,
                                            version |-> version.val.val])

\* the errors of the parser
ParseErrors == {"Tag", "Eof", "MapRes"}

\* a field as the server writes it
Field(t, value) == t \o <<Len(value)>> \o value

\* addresses of hosts of the network, as text: "10.1" and "10.2"
IP_A == <<49, 48, 46, 49>>
IP_B == <<49, 48, 46, 50>>

S_h == <<104>>
S_9000 == <<57, 48, 48, 48>>
S_9x == <<57, 120>>
S_u == <<117>>
S_8 == <<56>>

\* the reply of a server
ReplyOf(hostname, port) ==
    Field(T_ENAME, hostname) \o Field(T_JSON, port) \o Field(T_UUID, S_u)
        \o Field(T_VERS, S_8)

\* the datagrams that reach the socket of discover: replies of servers, one of
\* them naming another address than its own, a reply whose port is no number,
\* and the probe of another client
Datagram(ip, payload) == [src |-> [ip |-> ip, port |-> 3483], payload |-> payload]
Datagrams ==
    {Datagram(IP_A, ReplyOf(S_h, S_9000)),
     Datagram(IP_A, ReplyOf(IP_B, S_9000)),
     Datagram(IP_B, ReplyOf(S_h, S_9x)),
     Datagram(IP_B, ProbeMessage)}

(***************************************************************************)
(* The state of the running program.                                       *)
(***************************************************************************)
VARIABLES
    fault,      \* the kind of failure the server is subject to in this run
    phase,      \* the state of the supervising main task
    outcome,    \* the failure main ends with
    child,      \* the squeezelite process: running, exited or killed
    chan,       \* the errors buffered in the mpsc channel of the client
    waiters,    \* the tasks suspended in sender.send, in order of arrival
    received,   \* history: the errors the receiver has taken, in order
    sentLog,    \* history: the errors the channel has accepted, in order
    call,       \* per task: the LmsClient operation it is in
    bpc,        \* where poll_for_mode_changes is
    last_mode,  \* its local last_mode: Option<Mode>
    polls,      \* history: the result of each get_mode of the loop
    notifs,     \* history: the polls (from 0) at which the signal was emitted
    hpc,        \* where the D-Bus method being served is
    player,     \* the name and the id start_dbus_server and
                \* poll_for_mode_changes were given: the fields of MprisPlayer
    failures,   \* history: the number of calls that have failed so far
    now,        \* the clock of the discovery, from the call of discover
    reply_timeout,     \* the timeout of one attempt of discover
    discover_timeout,  \* the overall deadline of the discovery
    dpc,        \* where discover is
    attempts,   \* history: the time each iteration of its loop began
    probes,     \* history: the time each probe was sent
    sockq,      \* the datagrams that wait at its socket
    rcvd,       \* history: the datagrams recv_from has yielded
    dresult,    \* what discover has returned
    arg,        \* the input of the run: what is given to the function applied
    res,        \* the result of the function applied to it; in the runs about
                \* the answers of the D-Bus methods, the history of the request
    wait        \* where wait_for_player is, with its arguments and its clock

supVars == <<phase, outcome, child>>
chanVars == <<chan, waiters, received, sentLog, failures>>
pollVars == <<bpc, last_mode, polls, notifs>>
dbusVars == <<hpc, player>>
runVars == <<supVars, chanVars, call, pollVars, dbusVars>>
discVars == <<now, reply_timeout, discover_timeout, dpc, attempts, probes, sockq,
              rcvd, dresult>>
fnVars == <<arg, res>>
vars == <<fault, runVars, discVars, fnVars, wait>>

Tasks == {"poller", "dbus", "main"}

\* mpsc::channel::<anyhow::Error>(1)
ChannelCapacity == 1

\* the id the player of the model is known by at the server
player_id == "aa:bb"

NoCall == [st |-> "none", op |-> "none", target |-> "", inner |-> Ok("unit"),
           ret |-> Ok("unit"), sends |-> 0]

\* the error a failed call forwards: the cause, tagged with the task it is from
Cause(c, e) == [task |-> c, err |-> e]

\* a task enters an operation of the client with the player it names: the
\* request is posted
StartCall(c, op, name) ==
    call' = [call EXCEPT ![c] = [NoCall EXCEPT !.st = "posting", !.op = op,
                                               !.target = name]]

\* the caller goes on with the result of the operation
EndCall(c) == call' = [call EXCEPT ![c] = NoCall]

\* handle_error as it would be if it dropped the cause instead of sending it
handle_error_Silent(c, result, error) ==
    /\ call' = [call EXCEPT ![c].st = "returned", ![c].inner = result,
                            ![c].ret = IF result.ok THEN result ELSE Err(error)]
    /\ failures' = IF result.ok THEN failures ELSE failures + 1
    /\ UNCHANGED <<chan, waiters, received, sentLog>>

\* handle_error as it would be if a full channel dropped the pending error for
\* the new one
handle_error_Overwrite(c, result, error) ==
    IF result.ok
    THEN /\ call' = [call EXCEPT ![c].st = "returned", ![c].inner = result,
                                 ![c].ret = result]
         /\ UNCHANGED chanVars
    ELSE /\ chan' = <<Cause(c, result.err)>>
         /\ sentLog' = Append(sentLog, Cause(c, result.err))
         /\ call' = [call EXCEPT ![c].st = "returned", ![c].inner = result,
                                 ![c].ret = Err(error), ![c].sends = @ + 1]
         /\ failures' = failures + 1
         /\ UNCHANGED <<waiters, received>>

\* handle_error as it would be if send always waited for the receiver
handle_error_Rendezvous(c, result, error) ==
    IF result.ok
    THEN /\ call' = [call EXCEPT ![c].st = "returned", ![c].inner = result,
                                 ![c].ret = result]
         /\ UNCHANGED chanVars
    ELSE /\ waiters' = Append(waiters, c)
         /\ call' = [call EXCEPT ![c].st = "sending", ![c].inner = result]
         /\ failures' = failures + 1
         /\ UNCHANGED <<chan, received, sentLog>>

\* handle_error as it would be if a successful result were reported to the
\* channel too, when there is room
handle_error_ReportsSuccess(c, result, error) ==
    IF result.ok
    THEN /\ call' = [call EXCEPT ![c].st = "returned", ![c].inner = result,
                                 ![c].ret = result]
         /\ IF Len(chan) < ChannelCapacity /\ waiters = <<>>
            THEN /\ chan' = Append(chan, Cause(c, "none"))
                 /\ sentLog' = Append(sentLog, Cause(c, "none"))
            ELSE UNCHANGED <<chan, sentLog>>
         /\ UNCHANGED <<waiters, received, failures>>
    ELSE IF Len(chan) < ChannelCapacity /\ waiters = <<>>
    THEN /\ chan' = Append(chan, Cause(c, result.err))
         /\ sentLog' = Append(sentLog, Cause(c, result.err))
         /\ call' = [call EXCEPT ![c].st = "returned", ![c].inner = result,
                                 ![c].ret = Err(error), ![c].sends = @ + 1]
         /\ failures' = failures + 1
         /\ UNCHANGED <<waiters, received>>
    ELSE /\ waiters' = Append(waiters, c)
         /\ call' = [call EXCEPT ![c].st = "sending", ![c].inner = result]
         /\ failures' = failures + 1
         /\ UNCHANGED <<chan, received, sentLog>>

\* LmsClient::handle_error, up to the end of the call or to the suspension in
\* sender.send.  The receiver lives until the process exits, so send does not
\* fail.
handle_error(c, result, error) ==
    IF result.ok
    THEN /\ call' = [call EXCEPT ![c].st = "returned", ![c].inner = result,
                                 ![c].ret = result]
         /\ UNCHANGED chanVars
    ELSE IF Len(chan) < ChannelCapacity /\ waiters = <<>>
    THEN /\ chan' = Append(chan, Cause(c, result.err))
         /\ sentLog' = Append(sentLog, Cause(c, result.err))
         /\ call' = [call EXCEPT ![c].st = "returned", ![c].inner = result,
                                 ![c].ret = Err(error), ![c].sends = @ + 1]
         /\ failures' = failures + 1
         /\ UNCHANGED <<waiters, received>>
    ELSE /\ waiters' = Append(waiters, c)
         /\ call' = [call EXCEPT ![c].st = "sending", ![c].inner = result]
         /\ failures' = failures + 1
         /\ UNCHANGED <<chan, received, sentLog>>

\* the end of sender.send for a task that was suspended in it
send_resumed(c, error) ==
    /\ chan' = Append(chan, Cause(c, call[c].inner.err))
    /\ sentLog' = Append(sentLog, Cause(c, call[c].inner.err))
    /\ waiters' = Tail(waiters)
    /\ call' = [call EXCEPT ![c].st = "returned", ![c].ret = Err(error),
                            ![c].sends = @ + 1]
    /\ UNCHANGED <<received, failures>>

\* the reply of the server to the request of task c arrives
ClientReply(c) ==
    /\ phase # "Done"
    /\ call[c].st = "posting"
    /\ \E reply \in Replies(fault, call[c].op) :
          handle_error(c, Inner(call[c].op, call[c].target, reply), OpError(call[c].op))
    /\ UNCHANGED <<wait, fnVars, discVars, fault, supVars, pollVars, dbusVars>>

\* the channel has room again and task c is the first of those waiting for it
ClientSendResumes(c) ==
    /\ phase # "Done"
    /\ call[c].st = "sending"
    /\ waiters # <<>> /\ Head(waiters) = c
    /\ Len(chan) < ChannelCapacity
    /\ send_resumed(c, OpError(call[c].op))
    /\ UNCHANGED <<wait, fnVars, discVars, fault, supVars, pollVars, dbusVars>>

(***************************************************************************)
(* mpris.rs: poll_for_mode_changes.  The loop sleeps, asks the client for  *)
(* the mode, and on a change stores it and emits PropertiesChanged.        *)
(***************************************************************************)
\* the sleep of an iteration is over: client.get_mode(player_id) is called
PollerWakes ==
    /\ phase # "Done"
    /\ bpc = "sleep"
    /\ Len(polls) < MaxPolls
    /\ StartCall("poller", "get_mode", player.player_id)
    /\ bpc' = "query"
    /\ UNCHANGED <<wait, fnVars, discVars, fault, supVars, chanVars, last_mode, polls, notifs, dbusVars>>

\* poll_step as it would be if the mode were not stored on a change
poll_step_NoStore(r) ==
    IF ~r.ok
    THEN /\ bpc' = "sleep"
         /\ UNCHANGED <<last_mode, notifs>>
    ELSE IF last_mode # Some(r.val)
    THEN /\ notifs' = Append(notifs, Len(polls))
         /\ bpc' = "emit"
         /\ UNCHANGED last_mode
    ELSE /\ bpc' = "sleep"
         /\ UNCHANGED <<last_mode, notifs>>

\* poll_step as it would be if a failed query reset the stored mode
poll_step_ForgetOnErr(r) ==
    IF ~r.ok
    THEN /\ bpc' = "sleep"
         /\ last_mode' = None
         /\ UNCHANGED notifs
    ELSE IF last_mode # Some(r.val)
    THEN /\ last_mode' = Some(r.val)
         /\ notifs' = Append(notifs, Len(polls))
         /\ bpc' = "emit"
    ELSE /\ bpc' = "sleep"
         /\ UNCHANGED <<last_mode, notifs>>

\* poll_step as it would be if the error of get_mode were returned with ?
poll_step_ReturnOnErr(r) ==
    IF ~r.ok
    THEN /\ bpc' = "returned"
         /\ UNCHANGED <<last_mode, notifs>>
    ELSE IF last_mode # Some(r.val)
    THEN /\ last_mode' = Some(r.val)
         /\ notifs' = Append(notifs, Len(polls))
         /\ bpc' = "emit"
    ELSE /\ bpc' = "sleep"
         /\ UNCHANGED <<last_mode, notifs>>

\* poll_step as it would be if only the first mode were stored
poll_step_StoreFirstOnly(r) ==
    IF ~r.ok
    THEN /\ bpc' = "sleep"
         /\ UNCHANGED <<last_mode, notifs>>
    ELSE IF last_mode # Some(r.val)
    THEN /\ last_mode' = IF last_mode = None THEN Some(r.val) ELSE last_mode
         /\ notifs' = Append(notifs, Len(polls))
         /\ bpc' = "emit"
    ELSE /\ bpc' = "sleep"
         /\ UNCHANGED <<last_mode, notifs>>

\* what the loop does with the result of get_mode, up to its next await; the
\* emission of the signal is recorded when playback_status_changed is called
poll_step(r) ==
    IF ~r.ok
    THEN \* Err(_) => continue
         /\ bpc' = "sleep"
         /\ UNCHANGED <<last_mode, notifs>>
    ELSE IF last_mode # Some(r.val)
    THEN /\ last_mode' = Some(r.val)
         /\ notifs' = Append(notifs, Len(polls))
         /\ bpc' = "emit"
    ELSE /\ bpc' = "sleep"
         /\ UNCHANGED <<last_mode, notifs>>

\* PollerGotMode as it would be if a failed query were made again at once
PollerGotMode_RetriesAtOnce ==
    /\ phase # "Done"
    /\ bpc = "query"
    /\ call["poller"].st = "returned"
    /\ polls' = Append(polls, IF call["poller"].ret.ok THEN call["poller"].ret.val
                              ELSE "Err")
    /\ IF ~call["poller"].ret.ok /\ Len(polls) + 1 < MaxPolls
       THEN /\ StartCall("poller", "get_mode", player.player_id)
            /\ UNCHANGED <<bpc, last_mode, notifs>>
       ELSE /\ poll_step(call["poller"].ret)
            /\ EndCall("poller")
    /\ UNCHANGED <<wait, fnVars, discVars, fault, supVars, chanVars, dbusVars>>

\* get_mode has returned to the loop
PollerGotMode ==
    /\ phase # "Done"
    /\ bpc = "query"
    /\ call["poller"].st = "returned"
    /\ polls' = Append(polls, IF call["poller"].ret.ok THEN call["poller"].ret.val
                              ELSE "Err")
    /\ poll_step(call["poller"].ret)
    /\ EndCall("poller")
    /\ UNCHANGED <<wait, fnVars, discVars, fault, supVars, chanVars, dbusVars>>

\* what the loop does once playback_status_changed has answered: the ? returns
\* its error from the function
emit_step(emitted) == bpc' = IF emitted THEN "sleep" ELSE "returned"

\* playback_status_changed(...).await is over, with or without an error
PollerEmitDone ==
    /\ phase # "Done"
    /\ bpc = "emit"
    /\ \E emitted \in BOOLEAN : emit_step(emitted)
    /\ UNCHANGED <<wait, fnVars, discVars, fault, supVars, chanVars, call, last_mode, polls, notifs, dbusVars>>

RECURSIVE ToDecimal(_)
\* u16::to_string
ToDecimal(n) == IF n < 10 THEN <<48 + n>> ELSE ToDecimal(n \div 10) \o <<48 + (n % 10)>>

(***************************************************************************)
(* mpris.rs: the methods and properties of MprisPlayer that use the        *)
(* client.  Each serves one D-Bus request; metadata makes up to five calls.*)
(***************************************************************************)
DbusMethods == {"next", "previous", "pause", "play_pause", "stop", "play",
                "playback_status", "shuffle", "metadata"}
MetadataOps == <<"get_track_count", "get_artist", "get_album", "get_title",
                 "get_index">>
FirstOp(m) ==
    CASE m = "playback_status" -> "get_mode"
      [] m = "shuffle" -> "get_shuffle"
      [] m = "metadata" -> MetadataOps[1]
      [] OTHER -> m
Idle == [m |-> "idle", step |-> 0]

\* the bytes of "org", "mpris", "MediaPlayer2" and "track"
S_org == <<111, 114, 103>>
S_mpris == <<109, 112, 114, 105, 115>>
S_MediaPlayer2 == <<77, 101, 100, 105, 97, 80, 108, 97, 121, 101, 114, 50>>
S_track == <<116, 114, 97, 99, 107>>
Slash == 47

\* format!("/org/mpris/MediaPlayer2/{0}/track/{index}", self.player_name)
TrackPath(player_name, index) ==
    <<Slash>> \o S_org \o <<Slash>> \o S_mpris \o <<Slash>> \o S_MediaPlayer2
       \o <<Slash>> \o player_name \o <<Slash>> \o S_track \o <<Slash>> \o ToDecimal(index)

\* ObjectPath::try_from: a path begins with a slash, its elements are not
\* empty and are made of [A-Za-z0-9_], and it does not end with a slash
IsPathChar(b) == b \in (48..57) \cup (65..90) \cup (97..122) \cup {95}
ObjectPath_try_from(p) ==
    IF /\ p # <<>>
       /\ p[1] = Slash
       /\ \A i \in 1..Len(p) : p[i] = Slash \/ IsPathChar(p[i])
       /\ \A i \in 1..(Len(p) - 1) : ~(p[i] = Slash /\ p[i + 1] = Slash)
       /\ Len(p) > 1 => p[Len(p)] # Slash
    THEN Ok(p)
    ELSE Err("InvalidObjectPath")

\* HashMap::new()
HashMap_new == [k \in {} |-> <<>>]

\* metadata as it would be if an absent artist, album or title were an empty
\* entry of the map
metadata_map_EmptyForAbsent(self, artist, album, title, index) ==
    LET op == ObjectPath_try_from(TrackPath(self.player_name, index))
    IN IF ~op.ok THEN op
       ELSE Ok([k \in {"mpris:trackid", "xesam:artist", "xesam:album", "xesam:title"} |->
                  CASE k = "mpris:trackid" -> op.val
                    [] k = "xesam:artist" -> IF artist.some THEN <<artist.s>> ELSE <<>>
                    [] k = "xesam:album" -> IF album.some THEN album.s ELSE <<>>
                    [] k = "xesam:title" -> IF title.some THEN title.s ELSE <<>>])

\* metadata from the end of its queries: the track id is made of the name of
\* the player and the index, and the map gets it and the values that are there
metadata_map(self, artist, album, title, index) ==
    LET op == ObjectPath_try_from(TrackPath(self.player_name, index))
    IN IF ~op.ok THEN op
       ELSE Ok([k \in {"mpris:trackid"}
                        \cup (IF artist.some THEN {"xesam:artist"} ELSE {})
                        \cup (IF album.some THEN {"xesam:album"} ELSE {})
                        \cup (IF title.some THEN {"xesam:title"} ELSE {}) |->
                  CASE k = "mpris:trackid" -> op.val
                    [] k = "xesam:artist" -> <<artist.s>>
                    [] k = "xesam:album" -> album.s
                    [] k = "xesam:title" -> title.s])

\* what a method answers the request with, given what its last call of the
\* client returned and, in metadata, what the calls before returned
Answer(m, step, ret, got) ==
    IF ~ret.ok THEN ret
    ELSE CASE m = "playback_status" ->
                Ok(CASE ret.val = "Play" -> "Playing"
                     [] ret.val = "Pause" -> "Paused"
                     [] ret.val = "Stop" -> "Stopped")
           [] m = "shuffle" -> Ok(ret.val = "Songs")
           [] m = "metadata" ->
                IF step = 1 THEN Ok(HashMap_new)
                ELSE metadata_map(player, got[2], got[3], got[4], ret.val)
           [] OTHER -> ret

\* the result before the function is applied
NotApplied == Err("not applied")

\* history, kept in the runs that are about the answers: the queries the
\* method being served has made, what they returned, and the answer to the
\* last request served
NoAnswer == Err("no answer")
NothingServed == [asked |-> <<>>, got |-> <<>>, answer |-> NoAnswer]

\* DbusRequest as it would be if the methods named the player by its name
DbusRequest_ByName(m) ==
    /\ phase # "Done"
    /\ hpc = Idle
    /\ hpc' = [m |-> m, step |-> 1]
    /\ StartCall("dbus", FirstOp(m), player.player_name)
    /\ res' = IF res = NotApplied THEN res
              ELSE [asked |-> <<FirstOp(m)>>, got |-> <<>>, answer |-> NoAnswer]
    /\ UNCHANGED <<wait, arg, discVars, fault, supVars, chanVars, pollVars, player>>

\* a D-Bus request for method or property m arrives: the method calls the
\* client with self.player_id
DbusRequest(m) ==
    /\ phase # "Done"
    /\ hpc = Idle
    /\ hpc' = [m |-> m, step |-> 1]
    /\ StartCall("dbus", FirstOp(m), player.player_id)
    /\ res' = IF res = NotApplied THEN res
              ELSE [asked |-> <<FirstOp(m)>>, got |-> <<>>, answer |-> NoAnswer]
    /\ UNCHANGED <<wait, arg, discVars, fault, supVars, chanVars, pollVars, player>>

\* the call of the client has returned to the method: it answers the request,
\* or, in metadata, goes on to the next query
DbusContinue ==
    /\ phase # "Done"
    /\ hpc # Idle
    /\ call["dbus"].st = "returned"
    /\ IF /\ hpc.m = "metadata"
          /\ call["dbus"].ret.ok
          /\ hpc.step < Len(MetadataOps)
          /\ ~(hpc.step = 1 /\ call["dbus"].ret.val = 0)
       THEN /\ hpc' = [hpc EXCEPT !.step = @ + 1]
            /\ StartCall("dbus", MetadataOps[hpc.step + 1], player.player_id)
            /\ res' = IF res = NotApplied THEN res
                      ELSE [res EXCEPT !.asked = Append(@, MetadataOps[hpc.step + 1]),
                                       !.got = Append(@, call["dbus"].ret.val)]
       ELSE /\ hpc' = Idle
            /\ EndCall("dbus")
            /\ res' = IF res = NotApplied THEN res
                      ELSE [res EXCEPT !.got = IF call["dbus"].ret.ok
                                               THEN Append(@, call["dbus"].ret.val)
                                               ELSE @,
                                       !.answer = Answer(hpc.m, hpc.step,
                                                         call["dbus"].ret, res.got)]
    /\ UNCHANGED <<wait, arg, discVars, fault, supVars, chanVars, pollVars, player>>

(***************************************************************************)
(* The supervising main task while the player runs: it waits for the first *)
(* of an error of the client, the end of the polling task and the exit of  *)
(* the child process, then terminates the child and ends with the failure. *)
(***************************************************************************)
ExitCodes == {"none", "2"}

\* receiver.recv() yields an error of the client
SupervisorRecv ==
    /\ phase = "Running"
    /\ chan # <<>>
    /\ received' = Append(received, Head(chan))
    /\ chan' = Tail(chan)
    /\ outcome' = [by |-> "client error", what |-> Head(chan).err]
    /\ phase' = "Terminating"
    /\ UNCHANGED <<wait, fnVars, discVars, fault, child, waiters, sentLog, failures, call, pollVars, dbusVars>>

\* the supervisor as it would be if the end of the polling task were no
\* failure
SupervisorPollingExited_NoFailure ==
    /\ phase = "Running"
    /\ bpc = "returned"
    /\ phase' = "Terminating"
    /\ UNCHANGED <<wait, fnVars, discVars, fault, outcome, child, chanVars, call, pollVars, dbusVars>>

\* the polling task has ended
SupervisorPollingExited ==
    /\ phase = "Running"
    /\ bpc = "returned"
    /\ outcome' = [by |-> "polling exited", what |-> "none"]
    /\ phase' = "Terminating"
    /\ UNCHANGED <<wait, fnVars, discVars, fault, child, chanVars, call, pollVars, dbusVars>>

\* the child process exits by itself
ChildExits(code) ==
    /\ phase \in {"WaitingForPlayer", "Running", "Terminating"}
    /\ child.st = "running"
    /\ child' = [st |-> "exited", code |-> code]
    /\ UNCHANGED <<wait, fnVars, discVars, fault, phase, outcome, chanVars, call, pollVars, dbusVars>>

\* what is reported of a child that exited with the given code, or with none
ExitReport(code) == IF code = "none" THEN "exited without code" ELSE code

\* the supervisor as it would be if it reported the exit of the child without
\* its code
SupervisorChildExited_ForgetsCode ==
    /\ phase = "Running"
    /\ child.st = "exited"
    /\ outcome' = [by |-> "child exited", what |-> ExitReport("none")]
    /\ phase' = "Terminating"
    /\ UNCHANGED <<wait, fnVars, discVars, fault, child, chanVars, call, pollVars, dbusVars>>

\* the wait on the child process yields its exit status
SupervisorChildExited ==
    /\ phase = "Running"
    /\ child.st = "exited"
    /\ outcome' = [by |-> "child exited", what |-> ExitReport(child.code)]
    /\ phase' = "Terminating"
    /\ UNCHANGED <<wait, fnVars, discVars, fault, child, chanVars, call, pollVars, dbusVars>>

\* the supervisor as it would be if it returned without terminating the child
SupervisorTerminates_NoKill ==
    /\ phase = "Terminating"
    /\ phase' = "Done"
    /\ UNCHANGED <<wait, fnVars, discVars, fault, child, outcome, chanVars, call, pollVars, dbusVars>>

\* the supervisor as it would be if the end of the child it terminated became
\* its result
SupervisorTerminates_ReportsKill ==
    /\ phase = "Terminating"
    /\ child' = IF child.st = "running" THEN [st |-> "killed", code |-> "none"]
                ELSE child
    /\ outcome' = IF child.st = "running"
                  THEN [by |-> "child exited", what |-> ExitReport("none")]
                  ELSE outcome
    /\ phase' = "Done"
    /\ UNCHANGED <<wait, fnVars, discVars, fault, chanVars, call, pollVars, dbusVars>>

\* the child is terminated if it is still alive, and main returns: the process
\* ends, and with it every task
SupervisorTerminates ==
    /\ phase = "Terminating"
    /\ child' = IF child.st = "running" THEN [st |-> "killed", code |-> "none"]
                ELSE child
    /\ phase' = "Done"
    /\ UNCHANGED <<wait, fnVars, discVars, fault, outcome, chanVars, call, pollVars, dbusVars>>

\* the configurations of the address of the server: none, or a given one
Configs == {[address |-> None], [address |-> Some(IP_A)]}

\* the supervisor as it would be if it looked for the server even with an
\* address configured
SupervisorStarts_AlwaysDiscovers ==
    /\ phase = "Init"
    /\ phase' = "Discovering" /\ dpc' = "bind"
    /\ UNCHANGED <<wait, fnVars, fault, outcome, child, chanVars, call, pollVars, dbusVars, now,
                   reply_timeout, discover_timeout, attempts, probes, sockq, rcvd,
                   dresult>>

\* main begins: the server is looked for only if no address is configured
SupervisorStarts ==
    /\ phase = "Init"
    /\ IF arg.address = None
       THEN phase' = "Discovering" /\ dpc' = "bind"
       ELSE phase' = "LaunchingChild" /\ UNCHANGED dpc
    /\ UNCHANGED <<wait, fnVars, fault, outcome, child, chanVars, call, pollVars, dbusVars, now,
                   reply_timeout, discover_timeout, attempts, probes, sockq, rcvd,
                   dresult>>

\* the child process is started
SupervisorLaunches ==
    /\ phase = "LaunchingChild"
    /\ child.st = "none"
    /\ child' = [st |-> "running", code |-> "none"]
    /\ phase' = "WaitingForPlayer"
    /\ UNCHANGED <<wait, fnVars, discVars, fault, outcome, chanVars, call, pollVars, dbusVars>>

\* the child process cannot be started
SupervisorLaunchFails ==
    /\ phase = "LaunchingChild"
    /\ child.st = "none"
    /\ outcome' = [by |-> "launch failed", what |-> "none"]
    /\ phase' = "Done"
    /\ UNCHANGED <<wait, fnVars, discVars, fault, child, chanVars, call, pollVars, dbusVars>>

(***************************************************************************)
(* wait_for_player(name, timeout): until the timeout has elapsed, ask the  *)
(* client for the players and return the id of the first one of the name;  *)
(* sleep an interval between two queries.  The clock counts intervals.     *)
(***************************************************************************)
MaxWaitTimeout == 3

S_other == <<79, 116>>
S_xyz == <<120, 121, 122>>
S_def == <<100, 101, 102>>
PlayerRecord(name, id) ==
    JObj([k \in {"name", "playerid"} |-> IF k = "name" THEN JStr(name) ELSE JStr(id)])

\* the collections of players a server answers with
Collections ==
    {<<>>, <<PlayerRecord(S_name, S_id)>>, <<PlayerRecord(S_other, S_xyz)>>,
     <<PlayerRecord(S_other, S_xyz), PlayerRecord(S_name, S_id)>>,
     <<PlayerRecord(S_name, S_def), PlayerRecord(S_name, S_id)>>}

\* the replies of the server to the query of the players
PlayersReplies(f) ==
    {Body(JObj(OneField("players_loop", JArr(c)))) : c \in Collections}
    \cup FaultReplies(f, "get_players")

\* no player is known yet
NoPlayer == [player_name |-> <<>>, player_id |-> <<>>]

\* the players a run can be about, by name and id
S_dashed == <<83, 45, 113>>
Players == {[player_name |-> S_name, player_id |-> S_id],
            [player_name |-> S_other, player_id |-> S_xyz]}

\* the waiter before its first query
Waiting(name, timeout) ==
    [st |-> "check", name |-> name, timeout |-> timeout, elapsed |-> 0,
     seen |-> <<>>, result |-> None]

\* the waiter when wait_for_player is over, or was not called
WaitOver == [Waiting(S_name, 1) EXCEPT !.st = "over"]

\* the failure of a wait that has timed out, naming the seconds of the timeout
NotAvailable(timeout) == [ok |-> FALSE, err |-> "not available", seconds |-> timeout]

\* the indices of the players of the name in a collection
Named(players, name) == {i \in 1..Len(players) : players[i].name = name}

\* the first player of the name in a collection that holds one
FirstNamed(players, name) ==
    players[CHOOSE i \in Named(players, name) : \A k \in Named(players, name) : i <= k]

\* the timeout has not elapsed: the waiter asks the client for the players
WaiterPolls ==
    /\ phase = "WaitingForPlayer"
    /\ wait.st = "check"
    /\ wait.elapsed < wait.timeout
    /\ StartCall("main", "get_players", "")
    /\ wait' = [wait EXCEPT !.st = "query"]
    /\ UNCHANGED <<fnVars, discVars, fault, supVars, chanVars, pollVars, dbusVars>>

\* the reply of the server to the query of the waiter arrives
WaiterReply ==
    /\ phase = "WaitingForPlayer"
    /\ call["main"].st = "posting"
    /\ \E reply \in PlayersReplies(fault) :
          handle_error("main", Inner("get_players", "", reply), OpError("get_players"))
    /\ UNCHANGED <<wait, fnVars, discVars, fault, supVars, pollVars, dbusVars>>

\* wait_for_player as it would be if a failed query counted as a collection
\* without the player
wait_step_ErrorIsNotFound(ret) ==
    IF ret.ok /\ Named(ret.val, wait.name) # {}
    THEN wait' = [wait EXCEPT !.st = "returned", !.seen = Append(@, ret),
                              !.result = Ok(FirstNamed(ret.val, wait.name).playerid)]
    ELSE wait' = [wait EXCEPT !.st = "sleep", !.seen = Append(@, ret)]

\* wait_for_player as it would be if it returned the first player of the
\* collection
wait_step_FirstPlayer(ret) ==
    IF ~ret.ok
    THEN wait' = [wait EXCEPT !.st = "returned", !.seen = Append(@, ret),
                              !.result = ret]
    ELSE IF ret.val # <<>>
    THEN wait' = [wait EXCEPT !.st = "returned", !.seen = Append(@, ret),
                              !.result = Ok(ret.val[1].playerid)]
    ELSE wait' = [wait EXCEPT !.st = "sleep", !.seen = Append(@, ret)]

\* get_players has returned to the waiter: an error ends the wait, a player of
\* the name ends it with the id of the player, and otherwise the waiter sleeps
wait_step(ret) ==
    IF ~ret.ok
    THEN wait' = [wait EXCEPT !.st = "returned", !.seen = Append(@, ret),
                              !.result = ret]
    ELSE IF Named(ret.val, wait.name) # {}
    THEN wait' = [wait EXCEPT !.st = "returned", !.seen = Append(@, ret),
                              !.result = Ok(FirstNamed(ret.val, wait.name).playerid)]
    ELSE wait' = [wait EXCEPT !.st = "sleep", !.seen = Append(@, ret)]

WaiterGotPlayers ==
    /\ phase = "WaitingForPlayer"
    /\ wait.st = "query"
    /\ call["main"].st = "returned"
    /\ wait_step(call["main"].ret)
    /\ EndCall("main")
    /\ UNCHANGED <<fnVars, discVars, fault, supVars, chanVars, pollVars, dbusVars>>

\* an interval goes by: while the query is under way, or in the sleep of the
\* waiter, which then ends
WaiterTick ==
    /\ phase = "WaitingForPlayer"
    /\ wait.st \in {"query", "sleep"}
    /\ wait.elapsed <= wait.timeout
    /\ wait' = [wait EXCEPT !.elapsed = @ + 1,
                            !.st = IF @ = "sleep" THEN "check" ELSE @]
    /\ UNCHANGED <<fnVars, discVars, fault, runVars>>

\* the timeout has elapsed: the wait fails
wait_expires ==
    /\ wait.elapsed >= wait.timeout
    /\ wait' = [wait EXCEPT !.st = "returned", !.result = NotAvailable(wait.timeout)]

WaiterExpires ==
    /\ phase = "WaitingForPlayer"
    /\ wait.st = "check"
    /\ wait_expires
    /\ UNCHANGED <<fnVars, discVars, fault, runVars>>

\* the Availability Waiter has found the player: the State Bridge is started
\* and the presentation layer registered
WaiterFound ==
    /\ phase = "WaitingForPlayer"
    /\ wait.st = "returned"
    /\ wait.result.ok
    /\ phase' = "Running"
    /\ bpc' = "sleep"
    /\ player' = [player_name |-> wait.name, player_id |-> wait.result.val]
    /\ wait' = WaitOver
    /\ UNCHANGED <<fnVars, discVars, fault, child, outcome, chanVars, call, last_mode,
                   polls, notifs, hpc>>

\* the Availability Waiter has timed out
WaiterTimeout ==
    /\ phase = "WaitingForPlayer"
    /\ wait.st = "returned"
    /\ wait.result = NotAvailable(wait.timeout)
    /\ outcome' = [by |-> "not available", what |-> "timeout"]
    /\ phase' = "Terminating"
    /\ wait' = WaitOver
    /\ UNCHANGED <<fnVars, discVars, fault, child, chanVars, call, pollVars, dbusVars>>

\* a query of the Availability Waiter has failed: the client has sent the
\* cause to the channel and the waiter has failed with the error of the query
WaiterClientError ==
    /\ phase = "WaitingForPlayer"
    /\ wait.st = "returned"
    /\ wait.result = Err(OpError("get_players"))
    /\ outcome' = [by |-> "waiter failed", what |-> OpError("get_players")]
    /\ phase' = "Terminating"
    /\ wait' = WaitOver
    /\ UNCHANGED <<fnVars, discVars, fault, child, chanVars, call, pollVars, dbusVars>>

WaiterStep ==
    \/ WaiterPolls
    \/ WaiterReply
    \/ WaiterGotPlayers
    \/ WaiterTick
    \/ WaiterExpires

SupervisorWaits ==
    \/ SupervisorLaunches
    \/ SupervisorLaunchFails
    \/ WaiterStep
    \/ WaiterFound
    \/ WaiterTimeout
    \/ WaiterClientError

SupervisorStep ==
    \/ SupervisorRecv
    \/ SupervisorPollingExited
    \/ \E code \in ExitCodes : ChildExits(code)
    \/ SupervisorChildExited
    \/ SupervisorTerminates

(***************************************************************************)
(* discover.rs: discover, called by the supervising task when no address   *)
(* of the server is configured.  Time is a clock of ticks; an await that   *)
(* can complete does so before the clock goes on.                          *)
(***************************************************************************)
Last(s) == s[Len(s)]

\* the result of discover is returned
discover_returns(r) ==
    /\ dresult' = r
    /\ dpc' = "returned"

\* an iteration of the loop of discover begins
attempt_begins ==
    /\ attempts' = Append(attempts, now)
    /\ dpc' = "send"

\* UdpSocket::bind and set_broadcast, then the first iteration of the loop
DiscoverBind ==
    /\ phase = "Discovering"
    /\ dpc = "bind"
    /\ \E bound \in BOOLEAN :
          IF bound THEN attempt_begins /\ UNCHANGED dresult
          ELSE discover_returns(Err("Transport")) /\ UNCHANGED attempts
    /\ UNCHANGED <<wait, fnVars, fault, runVars, now, reply_timeout, discover_timeout, probes,
                   sockq, rcvd>>

\* broasdcast_and_recv up to recv_from: the probe is sent, or send_to fails
DiscoverSendProbe ==
    /\ phase = "Discovering"
    /\ dpc = "send"
    /\ \E sent \in BOOLEAN :
          IF sent THEN /\ probes' = Append(probes, now)
                       /\ dpc' = "recv"
                       /\ UNCHANGED dresult
          ELSE discover_returns(Err("Transport")) /\ UNCHANGED probes
    /\ UNCHANGED <<wait, fnVars, fault, runVars, now, reply_timeout, discover_timeout, attempts,
                   sockq, rcvd>>

\* discover_received as it would be if a reply that does not parse were skipped
discover_received_SkipUnparsed(d) ==
    LET parsed == parse_reply(Buffer(d.payload))
    IN IF parsed.ok
       THEN /\ discover_returns(Ok([ip |-> d.src.ip, reply |-> parsed.val.val]))
            /\ UNCHANGED attempts
       ELSE attempt_begins /\ UNCHANGED dresult

\* discover_received as it would be if the address were the hostname of the reply
discover_received_PayloadAddress(d) ==
    LET parsed == parse_reply(Buffer(d.payload))
    IN /\ discover_returns(IF parsed.ok
                           THEN Ok([ip |-> parsed.val.val.hostname,
                                    reply |-> parsed.val.val])
                           ELSE Err(parsed.err))
       /\ UNCHANGED attempts

\* discover_received as it would be if only the bytes recv_from has written
\* were parsed
discover_received_ReceivedBytesOnly(d) ==
    LET ip == d.src.ip
        parsed == parse_reply(d.payload)
    IN /\ discover_returns(IF parsed.ok
                           THEN Ok([ip |-> ip, reply |-> parsed.val.val])
                           ELSE Err(parsed.err))
       /\ UNCHANGED attempts

\* recv_from has yielded datagram d: broasdcast_and_recv returns the address it
\* is from and the buffer, the loop breaks, and the buffer is parsed
discover_received(d) ==
    LET ip == d.src.ip
        buffer == Buffer(d.payload)
        parsed == parse_reply(buffer)
    IN /\ discover_returns(IF parsed.ok
                           THEN Ok([ip |-> ip, reply |-> parsed.val.val])
                           ELSE Err(parsed.err))
       /\ UNCHANGED attempts

\* a datagram is at the socket while discover waits in recv_from
DiscoverRecv ==
    /\ phase = "Discovering"
    /\ dpc = "recv"
    /\ sockq # <<>>
    /\ rcvd' = Append(rcvd, Head(sockq))
    /\ sockq' = Tail(sockq)
    /\ discover_received(Head(sockq))
    /\ UNCHANGED <<wait, fnVars, fault, runVars, now, reply_timeout, discover_timeout, probes>>

\* DiscoverRecvFails as it would be if a failed recv_from were tried again
DiscoverRecvFails_Retries ==
    /\ phase = "Discovering"
    /\ dpc = "recv"
    /\ attempt_begins
    /\ UNCHANGED <<wait, fnVars, fault, runVars, now, reply_timeout, discover_timeout, dresult,
                   probes, sockq, rcvd>>

\* recv_from fails
DiscoverRecvFails ==
    /\ phase = "Discovering"
    /\ dpc = "recv"
    /\ discover_returns(Err("Transport"))
    /\ UNCHANGED <<wait, fnVars, fault, runVars, now, reply_timeout, discover_timeout, attempts,
                   probes, sockq, rcvd>>

\* attempt_timeout as it would be if the timeout of an attempt were returned
attempt_timeout_Fatal == discover_returns(Err("Elapsed")) /\ UNCHANGED attempts

\* attempt_timeout as it would be if only recv_from were tried again
attempt_timeout_NoProbe ==
    /\ attempts' = Append(attempts, now)
    /\ dpc' = "recv"
    /\ UNCHANGED dresult

\* timeout(reply_timeout, ...) has elapsed: a warning, and the loop goes round
attempt_timeout == attempt_begins /\ UNCHANGED dresult

\* no datagram was received within reply_timeout of the start of the attempt
DiscoverAttemptTimeout ==
    /\ phase = "Discovering"
    /\ dpc = "recv"
    /\ now = Last(attempts) + reply_timeout
    /\ attempt_timeout
    /\ UNCHANGED <<wait, fnVars, fault, runVars, now, reply_timeout, discover_timeout, probes,
                   sockq, rcvd>>

\* a host of the network answers a probe
ServerReplies(d) ==
    /\ phase = "Discovering"
    /\ probes # <<>>
    /\ Len(sockq) + Len(rcvd) < MaxDatagrams
    /\ sockq' = Append(sockq, d)
    /\ UNCHANGED <<wait, fnVars, fault, runVars, now, reply_timeout, discover_timeout, dpc,
                   attempts, probes, rcvd, dresult>>

\* the clock goes on while discover waits and no timer is due
Tick ==
    /\ phase = "Discovering"
    /\ dpc = "recv"
    /\ now < Last(attempts) + reply_timeout
    /\ now < discover_timeout
    /\ now' = now + 1
    /\ UNCHANGED <<wait, fnVars, fault, runVars, reply_timeout, discover_timeout, dpc, attempts,
                   probes, sockq, rcvd, dresult>>

\* the overall deadline of the discovery elapses while discover is still
\* waiting: the supervising task drops it and ends with the discovery timeout
SupervisorDiscoveryDeadline ==
    /\ phase = "Discovering"
    /\ dpc = "recv"
    /\ now = discover_timeout
    /\ dpc' = "dropped"
    /\ outcome' = [by |-> "discovery timeout", what |-> discover_timeout]
    /\ phase' = "Done"
    /\ UNCHANGED <<wait, fnVars, fault, child, chanVars, call, pollVars, dbusVars, now,
                   reply_timeout, discover_timeout, attempts, probes, sockq, rcvd,
                   dresult>>

\* discover has returned: the supervising task goes on to launch the child
\* with the server that was found, or ends with the error
SupervisorDiscovered ==
    /\ phase = "Discovering"
    /\ dpc = "returned"
    /\ IF dresult.ok THEN phase' = "LaunchingChild" /\ UNCHANGED outcome
       ELSE /\ phase' = "Done"
            /\ outcome' = [by |-> "discovery failed", what |-> dresult.err]
    /\ dpc' = "done"
    /\ UNCHANGED <<wait, fnVars, fault, child, chanVars, call, pollVars, dbusVars, now,
                   reply_timeout, discover_timeout, attempts, probes, sockq, rcvd,
                   dresult>>

\* the variables of the discovery when it is over or was not needed
NoDiscovery ==
    /\ now = 0
    /\ reply_timeout = 1
    /\ discover_timeout = 2
    /\ dpc = "idle"
    /\ attempts = <<>>
    /\ probes = <<>>
    /\ sockq = <<>>
    /\ rcvd = <<>>
    /\ dresult = None

(***************************************************************************)
(* One operation of the client against one reply: a task calls operation   *)
(* arg.op, again and again, and the server answers arg.reply each time.    *)
(***************************************************************************)
OpInputs == UNION {{[op |-> o, reply |-> r] : r \in AllReplies(o)} : o \in Ops}

\* the task calls the operation
OpCalled ==
    /\ phase # "Done"
    /\ call["dbus"].st = "none"
    /\ StartCall("dbus", arg.op, player_id)
    /\ UNCHANGED <<fault, supVars, chanVars, pollVars, dbusVars, discVars, arg, res, wait>>

\* the reply arrives: the closure of the operation is evaluated and its result
\* goes through handle_error
OpReplied ==
    /\ phase # "Done"
    /\ call["dbus"].st = "posting"
    /\ handle_error("dbus", Inner(arg.op, player_id, arg.reply), OpError(arg.op))
    /\ UNCHANGED <<fault, supVars, pollVars, dbusVars, discVars, arg, res, wait>>

\* the task goes on with what the operation returned
OpReturned ==
    /\ phase # "Done"
    /\ call["dbus"].st = "returned"
    /\ hpc = Idle
    /\ EndCall("dbus")
    /\ UNCHANGED <<fault, supVars, chanVars, pollVars, dbusVars, discVars, arg, res, wait>>


(***************************************************************************)
(* parse_reply on buffers made of fields.  The input of a run is the four  *)
(* values, the order in which their fields are written, the number of      *)
(* bytes cut from the end, and whether the bytes are put in the buffer of  *)
(* broasdcast_and_recv or are the buffer.                                  *)
(***************************************************************************)

S_e_acute == <<195, 169>>
LongName == [i \in 1..255 |-> 97]
S_8_3_1 == <<56, 46, 51, 46, 49>>

Hostnames == {S_empty, S_h, IP_B, S_e_acute, LongName}
Ports == {0, 80, 9000, U16Max}
Uuids == {S_u, S_empty}
Versions == {S_8_3_1}

InOrder == <<1, 2, 3, 4>>
Permutations4 ==
    {o \in [1..4 -> 1..4] : \A i, j \in 1..4 : o[i] = o[j] => i = j}
Orders ==
    Permutations4 \cup
    {<<1, 2, 3>>, <<1, 2, 4>>, <<1, 3, 4>>, <<2, 3, 4>>, <<1, 2>>, <<1>>, <<>>,
     <<1, 2, 3, 4, 1>>}

TagOf(i) == <<T_ENAME, T_JSON, T_UUID, T_VERS>>[i]
ValueOf(a, i) == <<a.hostname, a.text, a.uuid, a.version>>[i]

RECURSIVE FieldsOf(_, _)
\* the fields of input a from the k-th of its order on
FieldsOf(a, k) ==
    IF k > Len(a.order) THEN <<>>
    ELSE Field(TagOf(a.order[k]), ValueOf(a, a.order[k])) \o FieldsOf(a, k + 1)

\* the buffer that is parsed
BufferOf(a) ==
    LET bytes == FieldsOf(a, 1)
        kept == SubSeq(bytes, 1, Len(bytes) - a.cut)
    IN IF a.padded THEN Buffer(kept \o a.suffix) ELSE kept \o a.suffix

ParseInput(h, p, u, v, o, c, pad) ==
    [hostname |-> h, port |-> p, text |-> ToDecimal(p), uuid |-> u, version |-> v,
     order |-> o, cut |-> c, suffix |-> <<>>, padded |-> pad]

\* texts of the port field: "", "9x", "-1", "+80", "080", " 80", "8.0", "65536",
\* "99999"
S_plus80 == <<43, 56, 48>>
S_080 == <<48, 56, 48>>
S_sp80 == <<32, 56, 48>>
S_8dot0 == <<56, 46, 48>>
S_65536 == <<54, 53, 53, 51, 54>>
S_99999 == <<57, 57, 57, 57, 57>>
PortTexts ==
    {S_empty, S_9x, S_minus1, S_plus80, S_080, S_sp80, S_8dot0, S_65536, S_99999}

\* bytes that follow the last field: a zero, another byte, a field, a tag
Suffixes == {<<0>>, <<255>>, Field(T_ENAME, S_h), T_VERS, <<0, 0, 69>>}

ParseInputs ==
    {ParseInput(h, p, u, v, InOrder, 0, pad) :
        h \in Hostnames, p \in Ports, u \in Uuids, v \in Versions, pad \in BOOLEAN}
    \cup {ParseInput(S_h, 9000, S_u, S_8_3_1, o, 0, pad) : o \in Orders, pad \in BOOLEAN}
    \cup {ParseInput(S_h, 9000, S_u, S_8_3_1, InOrder, c, FALSE) :
             c \in 1..(Len(ReplyOf(S_h, S_9000)) + 4)}
    \cup {[ParseInput(S_h, 0, S_u, S_8_3_1, InOrder, 0, pad) EXCEPT !.text = t] :
             t \in PortTexts, pad \in BOOLEAN}
    \cup {[ParseInput(h, p, S_u, S_8_3_1, InOrder, 0, pad) EXCEPT !.suffix = x] :
             h \in {S_h, LongName}, p \in Ports, x \in Suffixes, pad \in BOOLEAN}

\* parse_reply is applied to the buffer
ParseApplied ==
    /\ res = NotApplied
    /\ arg \in ParseInputs
    /\ res' = parse_reply(BufferOf(arg))
    /\ UNCHANGED <<fault, runVars, discVars, arg, wait>>

\* no function is applied apart from the program
NoFunction == arg = "none" /\ res = NotApplied

\* wait_for_player is over
NoWait == wait = WaitOver

InitRunning ==
    /\ phase = "Running"
    /\ outcome = [by |-> "none", what |-> "none"]
    /\ child = [st |-> "running", code |-> "none"]
    /\ chan = <<>>
    /\ waiters = <<>>
    /\ received = <<>>
    /\ sentLog = <<>>
    /\ call = [c \in Tasks |-> NoCall]
    /\ bpc = "sleep"
    /\ last_mode = None
    /\ polls = <<>>
    /\ notifs = <<>>
    /\ hpc = Idle
    /\ failures = 0
    /\ NoDiscovery
    /\ NoFunction
    /\ NoWait

(***************************************************************************)
(* The running program: the polling task, the D-Bus requests and the       *)
(* supervising task, with a server subject to any one kind of failure.     *)
(***************************************************************************)
Init ==
    fault \in Faults /\ player = [player_name |-> S_name, player_id |-> S_id] /\ InitRunning

Next ==
    \/ \E c \in Tasks : ClientReply(c)
    \/ \E c \in Tasks : ClientSendResumes(c)
    \/ (Len(polls) < MaxRunPolls /\ PollerWakes)
    \/ PollerGotMode
    \/ PollerEmitDone
    \/ \E m \in DbusMethods : DbusRequest(m)
    \/ DbusContinue
    \/ SupervisorStep

Spec == Init /\ [][Next]_vars

\* the running program for each of the players, with a server that leaves the
\* field out of some replies
InitPlayers == fault = "missing key" /\ player \in Players /\ InitRunning

SpecPlayers == InitPlayers /\ [][Next]_vars

\* the requests for the metadata of a player with tracks or without, whose
\* name is or is not fit for an object path, with a server that leaves the
\* field out of some replies, and the answers they get
InitMetadata ==
    /\ fault = "missing key"
    /\ player \in Players \cup {[player_name |-> S_dashed, player_id |-> S_def]}
    /\ phase = "Running"
    /\ outcome = [by |-> "none", what |-> "none"]
    /\ child = [st |-> "running", code |-> "none"]
    /\ chan = <<>>
    /\ waiters = <<>>
    /\ received = <<>>
    /\ sentLog = <<>>
    /\ call = [c \in Tasks |-> NoCall]
    /\ bpc = "sleep"
    /\ last_mode = None
    /\ polls = <<>>
    /\ notifs = <<>>
    /\ hpc = Idle
    /\ failures = 0
    /\ NoDiscovery
    /\ arg = "none"
    /\ res = NothingServed
    /\ NoWait

NextMetadata ==
    \/ DbusRequest("metadata")
    \/ DbusRequest("playback_status")
    \/ ClientReply("dbus")
    \/ ClientSendResumes("dbus")
    \/ DbusContinue
    \/ SupervisorRecv
    \/ SupervisorTerminates

SpecMetadata == InitMetadata /\ [][NextMetadata]_vars

(***************************************************************************)
(* The supervisor from the launch of the child on: the Availability        *)
(* Waiter, then the running program with some of the D-Bus requests.       *)
(***************************************************************************)
SupervisedFaults == {"transport", "missing key"}
SupervisedMethods == {"play", "metadata"}

InitSupervisor ==
    /\ fault \in SupervisedFaults
    /\ phase = "LaunchingChild"
    /\ outcome = [by |-> "none", what |-> "none"]
    /\ child = [st |-> "none", code |-> "none"]
    /\ chan = <<>>
    /\ waiters = <<>>
    /\ received = <<>>
    /\ sentLog = <<>>
    /\ call = [c \in Tasks |-> NoCall]
    /\ bpc = "none"
    /\ last_mode = None
    /\ polls = <<>>
    /\ notifs = <<>>
    /\ hpc = Idle
    /\ player = NoPlayer
    /\ failures = 0
    /\ NoDiscovery
    /\ NoFunction
    /\ wait = Waiting(S_name, 1)

Supervised == phase \in {"Running", "Terminating"}

NextSupervisor ==
    \/ SupervisorWaits
    \/ (Supervised /\ \E c \in Tasks : ClientReply(c))
    \/ (Supervised /\ \E c \in Tasks : ClientSendResumes(c))
    \/ (Supervised /\ Len(polls) < MaxRunPolls /\ PollerWakes)
    \/ (Supervised /\ PollerGotMode)
    \/ (Supervised /\ PollerEmitDone)
    \/ (Supervised /\ \E m \in SupervisedMethods : DbusRequest(m))
    \/ (Supervised /\ DbusContinue)
    \/ SupervisorStep

SpecSupervisor == InitSupervisor /\ [][NextSupervisor]_vars

(***************************************************************************)
(* The Availability Waiter alone: wait_for_player with each name and       *)
(* timeout, against a server that answers each query with any collection   *)
(* or with a failure of its kind.                                          *)
(***************************************************************************)
InitWaiter ==
    /\ fault \in Faults
    /\ phase = "WaitingForPlayer"
    /\ outcome = [by |-> "none", what |-> "none"]
    /\ child = [st |-> "running", code |-> "none"]
    /\ chan = <<>>
    /\ waiters = <<>>
    /\ received = <<>>
    /\ sentLog = <<>>
    /\ call = [c \in Tasks |-> NoCall]
    /\ bpc = "none"
    /\ last_mode = None
    /\ polls = <<>>
    /\ notifs = <<>>
    /\ hpc = Idle
    /\ player = NoPlayer
    /\ failures = 0
    /\ NoDiscovery
    /\ NoFunction
    /\ wait \in {Waiting(n, t) : n \in {S_name, S_other}, t \in 1..MaxWaitTimeout}

NextWaiter ==
    \/ WaiterStep
    \/ WaiterFound
    \/ WaiterTimeout
    \/ WaiterClientError

SpecWaiter == InitWaiter /\ [][NextWaiter]_vars

(***************************************************************************)
(* The polling loop alone, over longer sequences of polls, with a server   *)
(* whose failures are failures of the transport.                           *)
(***************************************************************************)
InitPoller ==
    fault = "transport" /\ player = [player_name |-> S_name, player_id |-> S_id] /\ InitRunning

NextPoller ==
    \/ ClientReply("poller")
    \/ ClientSendResumes("poller")
    \/ PollerWakes
    \/ PollerGotMode
    \/ PollerEmitDone
    \/ SupervisorStep

SpecPoller == InitPoller /\ [][NextPoller]_vars

(***************************************************************************)
(* The running program under the scheduling of the runtime: a task that    *)
(* can go on does go on, and the supervising task takes what it waits for. *)
(* Nothing is assumed of the server, the D-Bus clients or the child.       *)
(***************************************************************************)
Fairness ==
    /\ \A c \in Tasks : WF_vars(ClientSendResumes(c))
    /\ WF_vars(PollerGotMode)
    /\ WF_vars(DbusContinue)
    /\ WF_vars(SupervisorRecv)
    /\ WF_vars(SupervisorPollingExited)
    /\ WF_vars(SupervisorChildExited)
    /\ WF_vars(SupervisorTerminates)

FairSpec == InitPoller /\ [][Next]_vars /\ Fairness

(***************************************************************************)
(* Each operation of the client against each reply the model has, with the *)
(* supervising task as the receiver of the channel.                        *)
(***************************************************************************)
InitOps ==
    /\ fault = "any"
    /\ phase = "Running"
    /\ outcome = [by |-> "none", what |-> "none"]
    /\ child = [st |-> "running", code |-> "none"]
    /\ chan = <<>>
    /\ waiters = <<>>
    /\ received = <<>>
    /\ sentLog = <<>>
    /\ call = [c \in Tasks |-> NoCall]
    /\ bpc = "sleep"
    /\ last_mode = None
    /\ polls = <<>>
    /\ notifs = <<>>
    /\ hpc = Idle
    /\ player = NoPlayer
    /\ failures = 0
    /\ NoDiscovery
    /\ arg \in OpInputs
    /\ res = NotApplied
    /\ NoWait

NextOps ==
    \/ OpCalled
    \/ OpReplied
    \/ OpReturned
    \/ ClientSendResumes("dbus")
    \/ SupervisorRecv
    \/ SupervisorTerminates

SpecOps == InitOps /\ [][NextOps]_vars

(***************************************************************************)
(* parse_reply applied to each buffer the model builds.                    *)
(***************************************************************************)
InitParse ==
    /\ fault = "any"
    /\ phase = "Discovering"
    /\ outcome = [by |-> "none", what |-> "none"]
    /\ child = [st |-> "none", code |-> "none"]
    /\ chan = <<>>
    /\ waiters = <<>>
    /\ received = <<>>
    /\ sentLog = <<>>
    /\ call = [c \in Tasks |-> NoCall]
    /\ bpc = "sleep"
    /\ last_mode = None
    /\ polls = <<>>
    /\ notifs = <<>>
    /\ hpc = Idle
    /\ player = NoPlayer
    /\ failures = 0
    /\ NoDiscovery
    /\ arg \in ParseInputs
    /\ res = NotApplied
    /\ NoWait

NextParse == ParseApplied

SpecParse == InitParse /\ [][NextParse]_vars

(***************************************************************************)
(* Datagrams that end before the reply does: the reply of a server and     *)
(* what is left of it when it is cut inside the hostname, the port, the    *)
(* uuid, after the tag of the version, after its length byte, and inside   *)
(* the version.                                                            *)
(***************************************************************************)
S_lms == <<108, 109, 115>>
FullReply ==
    Field(T_ENAME, S_lms) \o Field(T_JSON, S_9000) \o Field(T_UUID, S_u)
        \o Field(T_VERS, S_8_3_1)

\* where the value of the version begins in it, after the tag and the length
VersionAt == Len(FullReply) - Len(S_8_3_1)

CutLengths ==
    {Len(T_ENAME) + 2,
     Len(Field(T_ENAME, S_lms)) + Len(T_JSON) + 3,
     Len(Field(T_ENAME, S_lms)) + Len(Field(T_JSON, S_9000)) + Len(T_UUID) + 1,
     VersionAt - 1,
     VersionAt,
     VersionAt + 2,
     Len(FullReply)}
CutDatagrams == {Datagram(IP_A, SubSeq(FullReply, 1, n)) : n \in CutLengths}

(***************************************************************************)
(* The discovery: the supervising task calls discover under its overall    *)
(* deadline, with every timeout of an attempt and every deadline after it  *)
(* up to the bounds.                                                       *)
(***************************************************************************)
InitDiscover ==
    /\ fault = "transport"
    /\ phase = "Discovering"
    /\ outcome = [by |-> "none", what |-> "none"]
    /\ child = [st |-> "none", code |-> "none"]
    /\ chan = <<>>
    /\ waiters = <<>>
    /\ received = <<>>
    /\ sentLog = <<>>
    /\ call = [c \in Tasks |-> NoCall]
    /\ bpc = "none"
    /\ last_mode = None
    /\ polls = <<>>
    /\ notifs = <<>>
    /\ hpc = Idle
    /\ player = NoPlayer
    /\ failures = 0
    /\ now = 0
    /\ reply_timeout \in 1..MaxReplyTimeout
    /\ discover_timeout \in (reply_timeout + 1)..MaxDiscoverTimeout
    /\ dpc = "bind"
    /\ attempts = <<>>
    /\ probes = <<>>
    /\ sockq = <<>>
    /\ rcvd = <<>>
    /\ dresult = None
    /\ NoFunction
    /\ wait = Waiting(S_name, 1)

NextDiscover ==
    \/ DiscoverBind
    \/ DiscoverSendProbe
    \/ DiscoverRecv
    \/ DiscoverRecvFails
    \/ DiscoverAttemptTimeout
    \/ \E d \in Datagrams \cup CutDatagrams : ServerReplies(d)
    \/ Tick
    \/ SupervisorDiscoveryDeadline
    \/ SupervisorDiscovered

SpecDiscover == InitDiscover /\ [][NextDiscover]_vars

\* the clock goes on, a timer that is due fires, and a task that can go on
\* does; nothing is assumed of the network
FairDiscover ==
    /\ SpecDiscover
    /\ WF_vars(Tick)
    /\ WF_vars(DiscoverBind)
    /\ WF_vars(DiscoverSendProbe)
    /\ WF_vars(DiscoverAttemptTimeout)
    /\ WF_vars(SupervisorDiscoveryDeadline)
    /\ WF_vars(SupervisorDiscovered)

(***************************************************************************)
(* The supervisor from the beginning of main: with or without an address   *)
(* of the server, the discovery, the launch, the Availability Waiter and   *)
(* the run.                                                                *)
(***************************************************************************)
InitPhases ==
    /\ fault = "transport"
    /\ phase = "Init"
    /\ arg \in Configs
    /\ res = NotApplied
    /\ outcome = [by |-> "none", what |-> "none"]
    /\ child = [st |-> "none", code |-> "none"]
    /\ chan = <<>>
    /\ waiters = <<>>
    /\ received = <<>>
    /\ sentLog = <<>>
    /\ call = [c \in Tasks |-> NoCall]
    /\ bpc = "none"
    /\ last_mode = None
    /\ polls = <<>>
    /\ notifs = <<>>
    /\ hpc = Idle
    /\ player = NoPlayer
    /\ failures = 0
    /\ NoDiscovery
    /\ wait = Waiting(S_name, 1)

NextPhases ==
    \/ SupervisorStarts
    \/ NextDiscover
    \/ SupervisorWaits
    \/ (Supervised /\ ClientReply("poller"))
    \/ (Supervised /\ Len(polls) < MaxRunPolls /\ PollerWakes)
    \/ (Supervised /\ PollerGotMode)
    \/ (Supervised /\ PollerEmitDone)
    \/ SupervisorStep

SpecPhases == InitPhases /\ [][NextPhases]_vars

(***************************************************************************)
(* Properties of the client and of its error channel.                      *)
(***************************************************************************)
\* the reasons of failure of an operation, each on every operation it applies
\* to: the transport, the decoding of the body, a result that is no object,
\* a field that is missing and is not optional, a field of the wrong type
OptionalOps == {"get_artist", "get_title", "get_album"}
FailureReasonsFail ==
    /\ \A op \in Ops : ~Inner(op, player_id, TransportFailure).ok
    /\ \A op \in Ops : ~Inner(op, player_id, Undecodable).ok
    /\ \A op \in QueryOps : \A v \in NonObjects : ~Inner(op, player_id, Body(v)).ok
    /\ \A op \in QueryOps \ OptionalOps :
          ~Inner(op, player_id, Body(JObj(EmptyMap))).ok
    /\ \A op \in QueryOps :
          ~Inner(op, player_id, Body(JObj(OneField(FieldOf(op), JNull)))).ok

\* C1: an operation of the client that fails, for whatever reason, returns an
\* error to its caller and has sent the cause of the failure to the error
\* channel exactly once, and it sends nothing before it has failed.
C1_FailureReturnedAndForwardedOnce ==
    /\ FailureReasonsFail
    /\ \A c \in Tasks :
          /\ call[c].st = "posting" => call[c].sends = 0
          /\ call[c].st = "sending" => call[c].sends = 0 /\ ~call[c].inner.ok
          /\ (call[c].st = "returned" /\ ~call[c].inner.ok) =>
                /\ call[c].ret = Err(OpError(call[c].op))
                /\ call[c].sends = 1
                /\ \E i \in 1..Len(sentLog) : sentLog[i] = Cause(c, call[c].inner.err)

\* a failed call has returned after it was suspended behind a full channel
C1_Witness ==
    /\ call["dbus"].st = "returned"
    /\ call["dbus"].ret = Err("Error get_artist")
    /\ call["dbus"].inner.err = "ResultHasWrongType"
    /\ Len(sentLog) = 2
    /\ received # <<>>

\* C2: the channel holds at most one error; what it has accepted is what the
\* receiver has taken followed by what is pending, in the order of acceptance;
\* every failure is accepted or is that of a task suspended in send; and the
\* channel accepts no more than it has room for: a task that finds it full
\* stays suspended until the receiver has taken the pending error.
C2_NoErrorLost ==
    /\ Len(chan) <= 1
    /\ sentLog = received \o chan
    /\ failures = Len(sentLog) + Len(waiters)
    /\ \A c \in Tasks :
          call[c].st = "sending" <=> \E i \in 1..Len(waiters) : waiters[i] = c
    /\ \A i, j \in 1..Len(waiters) : waiters[i] = waiters[j] => i = j
    /\ (waiters # <<>> /\ received = <<>>) => Len(chan) = 1

\* both tasks are suspended behind a pending error, after the receiver has
\* taken one
C2_Witness ==
    /\ Len(waiters) = 2
    /\ Len(chan) = 1
    /\ Len(received) = 1
    /\ failures = 4

\* C3, as claimed: a task that forwards a failure is not suspended for ever:
\* every call that has failed returns to its caller in the end.
C3_FailingCallReturns ==
    \A c \in Tasks : [](call[c].st = "sending" => <>(call[c].st = "returned"))

\* C3, amended: while the supervising task receives, a task is suspended in send
\* only behind a pending error, never while the channel has room; a task
\* suspended after that is in line for the room the receiver has made.
C3_SuspendedOnlyBehindPendingError ==
    \A c \in Tasks :
       call[c].st = "sending" =>
          /\ \E i \in 1..Len(waiters) : waiters[i] = c
          /\ phase = "Running" => Len(chan) = ChannelCapacity
          /\ Len(chan) < ChannelCapacity => received # <<>>

\* the process has ended with a task still suspended behind a pending error
\* that nobody receives
C3_Witness ==
    /\ phase = "Done"
    /\ received # <<>>
    /\ Len(chan) = ChannelCapacity
    /\ call["poller"].st = "sending"

\* the reply is a result that is an object without the field the query reads
MissingKey(a) ==
    /\ a.reply.kind = "body"
    /\ a.reply.result.t = "object"
    /\ FieldOf(a.op) \notin DOMAIN a.reply.result.o

\* the reply is a result that is no object
NoObject(a) == a.reply.kind = "body" /\ a.reply.result.t # "object"

\* the reply is a result that is an object whose field is a value of kind t
FieldIs(a, t) ==
    /\ a.reply.kind = "body"
    /\ a.reply.result.t = "object"
    /\ FieldOf(a.op) \in DOMAIN a.reply.result.o
    /\ a.reply.result.o[FieldOf(a.op)].t = t

\* C11: an optional-string query whose reply is an object without the field
\* returns the absent value as a success, and the call sends nothing to the
\* error channel.
C11_MissingKeyIsAbsent ==
    (arg.op \in OptionalOps /\ MissingKey(arg)) =>
       /\ call["dbus"].st \in {"none", "posting", "returned"}
       /\ call["dbus"].st = "returned" =>
             /\ call["dbus"].inner = Ok(None)
             /\ call["dbus"].ret = Ok(None)
             /\ call["dbus"].sends = 0
       /\ sentLog = <<>>
       /\ failures = 0

\* the artist was asked for and the result was an empty object
C11_Witness ==
    /\ arg = [op |-> "get_artist", reply |-> Body(JObj(EmptyMap))]
    /\ call["dbus"].st = "returned"
    /\ call["dbus"].ret = Ok(None)
    /\ chan = <<>>

\* C12: a result that is no object fails every query with the error of the
\* shape of the result, the optional-string queries included, and a field of
\* an optional-string query that is no string fails too: neither is absent.
C12_NoObjectIsNeverAbsent ==
    LET shape == arg.op \in QueryOps /\ NoObject(arg)
        nostring == /\ arg.op \in OptionalOps
                    /\ \E t \in {"null", "bool", "number", "array", "object"} :
                          FieldIs(arg, t)
    IN (shape \/ nostring) =>
          /\ call["dbus"].st \in {"returned", "sending"} =>
                call["dbus"].inner = Err(IF shape THEN "ResultHasWrongType"
                                         ELSE "WrongTopLevelType")
          /\ call["dbus"].st = "returned" =>
                call["dbus"].ret = Err(OpError(arg.op)) /\ call["dbus"].sends = 1
          /\ failures = Len(sentLog) + Len(waiters)

\* the title was asked for and the result was an array
C12_Witness ==
    /\ arg = [op |-> "get_title", reply |-> Body(JArr(<<APlayer>>))]
    /\ call["dbus"].st = "returned"
    /\ call["dbus"].ret = Err("Error get_title")
    /\ chan = <<Cause("dbus", "ResultHasWrongType")>>

\* C13: the shuffle mode is read by a closed mapping: "0" and 0 are Off, "1"
\* and 1 are Songs, "2" and 2 are Albums, and every other value of the field
\* is an error.
C13_ShuffleClosedMapping ==
    (arg.op = "get_shuffle" /\ \E v \in WideValues : FieldIs(arg, v.t)) =>
       LET v == arg.reply.result.o[FieldOf(arg.op)]
           r == call["dbus"].inner
       IN /\ call["dbus"].st \in {"returned", "sending"} =>
                IF v \in {JStr(S_0), JNum(0)} THEN r = Ok("Off")
                ELSE IF v \in {JStr(S_1), JNum(1)} THEN r = Ok("Songs")
                ELSE IF v \in {JStr(S_2), JNum(2)} THEN r = Ok("Albums")
                ELSE ~r.ok /\ r.err \in {"Expected012", "WrongTopLevelType"}
          /\ call["dbus"].st = "returned" =>
                call["dbus"].ret = IF r.ok THEN r ELSE Err("Error get_shuffle")

\* the shuffle mode was asked for and the field was the string "3"
C13_Witness ==
    /\ arg.op = "get_shuffle"
    /\ FieldIs(arg, "string")
    /\ arg.reply.result.o[FieldOf(arg.op)] = JStr(S_3)
    /\ call["dbus"].st = "returned"
    /\ call["dbus"].inner = Err("Expected012")
    /\ call["dbus"].ret = Err("Error get_shuffle")

(***************************************************************************)
(* Properties of the polling loop.                                         *)
(***************************************************************************)
RECURSIVE ChangesFrom(_, _, _)
\* the polls of ps, counted from i, whose mode differs from the mode held: held
\* is the mode of the last poll before them that succeeded, "none" if there is none
ChangesFrom(ps, i, held) ==
    IF ps = <<>> THEN <<>>
    ELSE IF Head(ps) = "Err" THEN ChangesFrom(Tail(ps), i + 1, held)
    ELSE IF Head(ps) = held THEN ChangesFrom(Tail(ps), i + 1, held)
    ELSE <<i>> \o ChangesFrom(Tail(ps), i + 1, Head(ps))

\* C4: the signal is emitted at exactly the polls whose mode differs from the
\* mode of the last successful poll before, and at the first successful poll;
\* the polls Play, Play, Pause, Pause, Play give three signals, at 0, 2 and 4.
C4_NotifiesOncePerChange ==
    /\ notifs = ChangesFrom(polls, 0, "none")
    /\ polls = <<"Play", "Play", "Pause", "Pause", "Play">> => notifs = <<0, 2, 4>>

C4_Witness ==
    /\ polls = <<"Play", "Play", "Pause", "Pause", "Play">>
    /\ notifs = <<0, 2, 4>>
    /\ bpc = "sleep"

\* C5: the step of the loop that takes a failed query emits nothing, leaves the
\* stored mode as it is and goes to the sleep of the next iteration; and a poll
\* that follows failed polls and has the mode of the last poll that succeeded
\* emits nothing.
C5_FailedPollSkipped ==
    [][/\ (polls' # polls /\ polls'[Len(polls')] = "Err") =>
             /\ notifs' = notifs
             /\ last_mode' = last_mode
             /\ bpc' = "sleep"
       /\ \A i, k \in 1..Len(polls') :
             (/\ i + 1 < k
              /\ polls'[i] # "Err"
              /\ polls'[k] = polls'[i]
              /\ \A j \in (i + 1)..(k - 1) : polls'[j] = "Err")
             => \A n \in 1..Len(notifs') : notifs'[n] # k - 1]_vars

\* a failed poll between two polls of the same mode, and the loop went on
C5_Witness ==
    /\ polls = <<"Pause", "Err", "Pause", "Play">>
    /\ notifs = <<0, 3>>

\* C6, as claimed: poll_for_mode_changes does not return.
C6_LoopNeverReturns == bpc # "returned"

\* C6, amended: no result of a poll ends the loop; the function returns only
\* from the emission of the signal, when that fails.
C6_ReturnsOnlyOnFailedEmission ==
    [][/\ polls' # polls => bpc' \in {"sleep", "emit"}
       /\ (bpc' = "returned" /\ bpc # "returned") => bpc = "emit"]_vars

\* the function has returned after the loop went through a failed poll
C6_Witness ==
    /\ bpc = "returned"
    /\ Len(polls) >= 2
    /\ polls[1] = "Err"

(***************************************************************************)
(* Properties of the discovery.                                            *)
(***************************************************************************)
\* C7: as long as no datagram arrives, discover begins a new attempt at every
\* multiple of reply_timeout, with no pause between the timeout of an attempt
\* and the next, and each attempt sends the probe as it begins; discover
\* returns an error only for a datagram it has received or for a failure of
\* the socket, never for the timeouts of its attempts.
C7_RetriesOnAttemptTimeout ==
    /\ \A i \in 1..Len(attempts) : attempts[i] = (i - 1) * reply_timeout
    /\ Len(probes) <= Len(attempts)
    /\ \A i \in 1..Len(probes) : probes[i] = attempts[i]
    /\ dpc = "recv" =>
          /\ probes = attempts
          /\ now <= Last(attempts) + reply_timeout
          /\ rcvd = <<>>
          /\ dresult = None
    /\ (dresult # None /\ ~dresult.ok) =>
          \/ dresult.err = "Transport"
          \/ rcvd # <<>> /\ dresult.err \in ParseErrors

\* the fourth probe is out and discover waits again, no datagram having come
C7_Witness ==
    /\ Len(probes) = 4
    /\ reply_timeout = 1
    /\ now = 3
    /\ dpc = "recv"
    /\ rcvd = <<>>
    /\ dresult = None

\* C8: once recv_from has yielded a datagram, discover has returned what the
\* parser makes of that datagram, an error if it does not parse, and from
\* then on no probe is sent and no other datagram is received.
C8_FirstDatagramDecides ==
    [][/\ rcvd' # <<>> =>
             /\ Len(rcvd') = 1
             /\ dpc' \in {"returned", "done"}
             /\ dresult' # None
             /\ dresult'.ok = parse_reply(Buffer(rcvd'[1].payload)).ok
             /\ ~dresult'.ok => dresult'.err = parse_reply(Buffer(rcvd'[1].payload)).err
       /\ rcvd # <<>> =>
             /\ probes' = probes
             /\ attempts' = attempts
             /\ rcvd' = rcvd
             /\ dresult' = dresult]_vars

\* the probe of another client was received first: the discovery has failed,
\* and the reply of a server that came after it is left at the socket
C8_Witness ==
    /\ rcvd = <<Datagram(IP_B, ProbeMessage)>>
    /\ sockq = <<Datagram(IP_A, ReplyOf(S_h, S_9000))>>
    /\ dresult = Err("Tag")
    /\ phase = "Done"
    /\ outcome = [by |-> "discovery failed", what |-> "Tag"]

\* C9: the discovery ends in every run; when no datagram comes and the socket
\* does not fail, it ends at the overall deadline with the discovery timeout,
\* discover having returned nothing; the timeout of an attempt is no outcome:
\* the phase goes on.
C9_DiscoveryEnds ==
    /\ <>(phase # "Discovering")
    /\ []((phase # "Discovering" /\ rcvd = <<>> /\ dresult # Err("Transport")) =>
             /\ phase = "Done"
             /\ outcome = [by |-> "discovery timeout", what |-> discover_timeout]
             /\ now = discover_timeout
             /\ dresult = None)
    /\ [][Len(attempts') > Len(attempts) =>
             /\ phase' = "Discovering"
             /\ outcome' = outcome
             /\ dresult' = None]_vars

\* the deadline has ended a discovery that had gone through timeouts of attempts
C9_Witness ==
    /\ phase = "Done"
    /\ outcome.by = "discovery timeout"
    /\ Len(attempts) >= 3
    /\ rcvd = <<>>

\* C10: the address discover returns is the address the datagram came from,
\* and the reply it returns is what the parser reads in the payload.
C10_AddressIsSourceAddress ==
    (dresult # None /\ dresult.ok) =>
       /\ rcvd # <<>>
       /\ dresult.val.ip = rcvd[1].src.ip
       /\ dresult.val.reply = parse_reply(Buffer(rcvd[1].payload)).val.val
       /\ DOMAIN dresult.val.reply = {"hostname", "port", "uuid", "version"}

\* a server was found whose reply names another address than the one it came from
C10_Witness ==
    /\ dresult # None /\ dresult.ok
    /\ dresult.val.ip = IP_A
    /\ dresult.val.reply.hostname = IP_B
    /\ phase = "LaunchingChild"

(***************************************************************************)
(* Properties of the parser of the reply.                                  *)
(***************************************************************************)
\* C14: a buffer that holds the fields ENAME, JSON, UUID, VERS in this order,
\* made of a hostname, a port in 0..65535 in decimal, an instance id and a
\* version, parses, and the reply holds these four values.
C14_ParseRoundTrip ==
    (arg.order = InOrder /\ arg.cut = 0 /\ arg.text = ToDecimal(arg.port)
     /\ res # NotApplied) =>
       /\ res.ok
       /\ res.val.val = [hostname |-> arg.hostname, port |-> arg.port,
                         uuid |-> arg.uuid, version |-> arg.version]

\* a hostname of 255 bytes and the largest port, in the buffer of the socket
C14_Witness ==
    /\ arg.order = InOrder /\ arg.cut = 0 /\ arg.padded
    /\ arg.hostname = LongName
    /\ arg.port = U16Max
    /\ res.ok
    /\ res.val.val.port = 65535
    /\ Len(res.val.val.hostname) = 255

\* the fields of the input begin with the four fields in their order
BeginsInOrder(a) == Len(a.order) >= 4 /\ SubSeq(a.order, 1, 4) = InOrder

\* C15: a buffer whose fields do not begin with ENAME, JSON, UUID, VERS in this
\* order, because one is missing or they are in another order, does not
\* parse: the tag is not found, and there is no reply.
C15_TagsInFixedOrder ==
    (arg.cut = 0 /\ arg.text = ToDecimal(arg.port) /\ res # NotApplied) =>
       IF BeginsInOrder(arg) THEN res.ok ELSE res = Err("Tag")

\* a buffer without the version field, in the buffer of the socket
C15_Witness ==
    /\ arg.order = <<1, 2, 3>>
    /\ arg.padded
    /\ res = Err("Tag")

RECURSIVE CutInField(_, _, _)
\* with left bytes from field i on, some field has its tag and then lacks its
\* length byte or bytes of its value
CutInField(a, i, left) ==
    IF i > Len(a.order) THEN FALSE
    ELSE LET t == Len(TagOf(a.order[i]))
             n == Len(ValueOf(a, a.order[i]))
         IN IF left < t THEN FALSE
            ELSE IF left < t + 1 + n THEN TRUE
            ELSE CutInField(a, i + 1, left - (t + 1 + n))

\* C16: a buffer that ends before the end of the value a length byte declares,
\* or after a tag, does not parse: the parser reports the end of its input.
C16_LengthPastEndFails ==
    (/\ res # NotApplied
     /\ arg.order = InOrder
     /\ ~arg.padded /\ arg.suffix = <<>>
     /\ CutInField(arg, 1, Len(BufferOf(arg)))) =>
       res = Err("Eof")

\* the buffer ends with the tag of the version
C16_Witness ==
    /\ arg.order = InOrder
    /\ ~arg.padded
    /\ arg.cut = 1 + Len(arg.version)
    /\ res = Err("Eof")

(***************************************************************************)
(* Properties of the supervisor                                            *)
(***************************************************************************)
\* C17: whenever the supervisor is done after the child was launched, the
\* child does not run any more: it has exited by itself, or was alive at the
\* termination step and has been terminated there.
C17_ChildNotLeftRunning ==
    /\ phase = "Done" => child.st \in {"none", "exited", "killed"}
    /\ (phase = "Done" /\ child.st = "none") => outcome.by = "launch failed"
    /\ child.st = "killed" => phase = "Done"

\* the supervisor is done after the timeout of the Availability Waiter and
\* has terminated the child
C17_Witness ==
    /\ phase = "Done"
    /\ outcome.by = "not available"
    /\ child.st = "killed"

\* the events the supervisor races while running that have occurred
ReadyEvents ==
    (IF chan # <<>> THEN {[by |-> "client error", what |-> Head(chan).err]} ELSE {})
    \cup (IF bpc = "returned" THEN {[by |-> "polling exited", what |-> "none"]} ELSE {})
    \cup (IF child.st = "exited"
          THEN {[by |-> "child exited", what |-> ExitReport(child.code)]} ELSE {})

\* C18: the supervisor is never done without a failure as its result, and it
\* leaves the running state only for the termination step and only when one
\* of the three events has occurred: the channel of errors holds a value,
\* the polling task has returned, or the child has exited.
C18_NoSuccessfulEnd ==
    [][/\ phase' = "Done" => outcome'.by # "none"
       /\ (phase = "Running" /\ phase' # "Running") =>
             /\ phase' = "Terminating"
             /\ ReadyEvents # {}
             /\ outcome'.by \in {"client error", "polling exited", "child exited"}]_vars

\* the supervisor is done after the polling task ended
C18_Witness ==
    /\ phase = "Done"
    /\ outcome.by = "polling exited"

\* C19: when the supervisor leaves the running state and the exit of the
\* child with code c is the only event that has occurred, its result is the
\* exit code c, or "exited without code" if there is none; that result stays
\* to the end, and the termination step does not terminate the child, which
\* has exited already.
C19_ChildExitIsReported ==
    [][/\ (phase = "Running" /\ phase' # "Running" /\ child.st = "exited"
           /\ chan = <<>> /\ bpc # "returned") =>
             outcome' = [by |-> "child exited", what |-> ExitReport(child.code)]
       /\ (phase' = "Done" /\ outcome'.by = "child exited") =>
             /\ child'.st = "exited"
             /\ outcome'.what = ExitReport(child'.code)
             /\ child' = child]_vars

\* the supervisor is done after the child exited with code 2
C19_Witness ==
    /\ phase = "Done"
    /\ outcome = [by |-> "child exited", what |-> "2"]
    /\ child = [st |-> "exited", code |-> "2"]

\* C20: the result of the supervisor is the cause of an event that has
\* occurred when it leaves the running state (the error taken from the
\* channel, "polling exited", or the exit of the child), and no later step
\* replaces it: not the end of the child that is terminated, nor an error
\* that the client sends afterwards.
C20_FirstCauseIsKept ==
    [][/\ (phase = "Running" /\ phase' # "Running") =>
             /\ outcome' \in ReadyEvents
             /\ outcome'.by = "client error" <=> received' # received
       /\ outcome.by # "none" => outcome' = outcome]_vars

\* the supervisor is done with the error it received, it has terminated the
\* child, and a later error of the client is in the channel
C20_Witness ==
    /\ phase = "Done"
    /\ outcome.by = "client error"
    /\ received # <<>> /\ outcome.what = received[1].err
    /\ child.st = "killed"
    /\ chan # <<>>

\* the steps between the phases of the supervisor
PhaseSteps ==
    {<<"Init", "Discovering">>, <<"Init", "LaunchingChild">>,
     <<"Discovering", "LaunchingChild">>, <<"Discovering", "Done">>,
     <<"LaunchingChild", "WaitingForPlayer">>, <<"LaunchingChild", "Done">>,
     <<"WaitingForPlayer", "Running">>, <<"WaitingForPlayer", "Terminating">>,
     <<"Running", "Terminating">>, <<"Terminating", "Done">>}

\* C21: the supervisor changes phase only forwards in the order Init,
\* Discovering, LaunchingChild, WaitingForPlayer, Running, Terminating, Done;
\* it enters Discovering only if no address is configured, and skips it only
\* if one is; the Availability Waiter runs only with the child launched; the
\* polling task is started at the step from WaitingForPlayer to Running and at
\* no other step, so never after a wait that failed or timed out.
C21_PhasesInOrder ==
    [][/\ phase' # phase => <<phase, phase'>> \in PhaseSteps
       /\ phase' = "Discovering" => arg.address = None
       /\ (phase = "Init" /\ phase' = "LaunchingChild") => arg.address # None
       /\ phase' = "WaitingForPlayer" => child'.st # "none"
       /\ (bpc = "none" /\ bpc' # "none") =>
             phase = "WaitingForPlayer" /\ phase' = "Running"
       /\ phase' = "Running" => bpc' # "none"
       /\ outcome'.by \in {"not available", "waiter failed"} => bpc' = "none"]_vars

\* the supervisor has discovered the server, launched the child, waited for
\* the player and started the polling task, which has polled
C21_Witness ==
    /\ arg.address = None
    /\ dresult # None /\ dresult.ok
    /\ phase = "Terminating"
    /\ bpc # "none" /\ polls # <<>>

(***************************************************************************)
(* Properties of the Availability Waiter                                   *)
(***************************************************************************)
\* the k-th query of the waiter was answered with a collection that holds a
\* player of the name
SeenNamed(k) == wait.seen[k].ok /\ Named(wait.seen[k].val, wait.name) # {}

\* C22: wait_for_player returns an id only if its last query was answered
\* with a collection that holds a player of the name with that id, and no
\* query before held one; once a query is answered with such a collection
\* the wait is over, with an id; and it fails as not available only when the
\* timeout has elapsed and no query was answered with a player of the name,
\* and the failure names the timeout.
C22_WaiterFindsByName ==
    LET n == Len(wait.seen)
    IN /\ (wait.st = "returned" /\ wait.result.ok) =>
             /\ n > 0 /\ wait.seen[n].ok
             /\ \E i \in Named(wait.seen[n].val, wait.name) :
                   wait.seen[n].val[i].playerid = wait.result.val
       /\ \A k \in 1..n :
             SeenNamed(k) => k = n /\ wait.st = "returned" /\ wait.result.ok
       /\ (wait.st = "returned" /\ ~wait.result.ok /\ wait.result.err = "not available") =>
             /\ wait.result.seconds = wait.timeout
             /\ wait.elapsed >= wait.timeout
             /\ \A k \in 1..n : wait.seen[k].ok

\* two queries were answered with no player, the third with the player of
\* the name, and wait_for_player has returned its id
C22_Witness ==
    /\ wait.st = "returned"
    /\ wait.name = S_name
    /\ Len(wait.seen) = 3
    /\ wait.seen[1] = Ok(<<>>) /\ wait.seen[2] = Ok(<<>>)
    /\ wait.result = Ok(S_id)

\* C23: a query of the waiter that fails is its last one: the wait is over
\* with the failure of that query as its result, and the waiter is in no
\* further call of the client.
C23_ErrorEndsWait ==
    \A k \in 1..Len(wait.seen) :
        ~wait.seen[k].ok =>
           /\ k = Len(wait.seen)
           /\ wait.st = "returned"
           /\ wait.result = wait.seen[k]
           /\ call["main"] = NoCall

\* the second query of the waiter has failed and the wait is over, before the
\* timeout has elapsed
C23_Witness ==
    /\ wait.st = "returned"
    /\ Len(wait.seen) = 2
    /\ wait.seen[1].ok /\ ~wait.seen[2].ok
    /\ wait.elapsed < wait.timeout
    /\ chan # <<>>

(***************************************************************************)
(* Properties of the extractors of the other queries                       *)
(***************************************************************************)
\* the reply is a result that is an object with the field the query reads
HasField(a) == \E v \in WideValues : FieldIs(a, v.t)

\* the value of the field the query reads
FieldValue(a) == a.reply.result.o[FieldOf(a.op)]

\* the call has evaluated the reply to r, which the caller gets if it is a
\* success, and the error of the operation if not
Evaluates(r) ==
    /\ call["dbus"].st \in {"returned", "sending"} => call["dbus"].inner = r
    /\ call["dbus"].st = "returned" =>
          call["dbus"].ret = IF r.ok THEN r ELSE Err(OpError(arg.op))

\* the call has failed
Fails ==
    /\ call["dbus"].st \in {"returned", "sending"} => ~call["dbus"].inner.ok
    /\ call["dbus"].st = "returned" => call["dbus"].ret = Err(OpError(arg.op))

\* C24: the playback mode is read by a closed mapping: the strings "stop",
\* "play" and "pause" are Stop, Play and Pause, and every other string and
\* every value that is no string is an error.
C24_ModeClosedMapping ==
    (arg.op = "get_mode" /\ HasField(arg)) =>
       LET v == FieldValue(arg)
       IN IF v = JStr(S_stop) THEN Evaluates(Ok("Stop"))
          ELSE IF v = JStr(S_play) THEN Evaluates(Ok("Play"))
          ELSE IF v = JStr(S_pause) THEN Evaluates(Ok("Pause"))
          ELSE IF v.t = "string" THEN Evaluates(Err("ExpectedStopPlayPause"))
          ELSE Evaluates(Err("WrongTopLevelType"))

\* the mode was asked for and the field was the string "Stop", with a capital
C24_Witness ==
    /\ arg.op = "get_mode"
    /\ HasField(arg)
    /\ FieldValue(arg) = JStr(S_Stop)
    /\ call["dbus"].st = "returned"
    /\ call["dbus"].ret = Err("Error get_mode")
    /\ chan = <<Cause("dbus", "ExpectedStopPlayPause")>>

\* C25 as stated: the connected state is false for the number 0, true for
\* the number 1, and an error for every other value of the field.
C25_OnlyZeroAndOneAreRead ==
    (arg.op = "get_connected" /\ HasField(arg)) =>
       LET v == FieldValue(arg)
       IN IF v = JNum(0) THEN Evaluates(Ok(FALSE))
          ELSE IF v = JNum(1) THEN Evaluates(Ok(TRUE))
          ELSE Fails

\* C25: the connected state is false for the number 0 and true for every
\* other integer number, 1 included; a number that is no integer and every
\* value that is no number is an error.
C25_NonZeroIntegerIsTrue ==
    (arg.op = "get_connected" /\ HasField(arg)) =>
       LET v == FieldValue(arg)
       IN IF v.t = "number" /\ v.int THEN Evaluates(Ok(v.n # 0))
          ELSE IF v.t = "number" THEN Evaluates(Err("NotAnI64"))
          ELSE Evaluates(Err("WrongTopLevelType"))

\* the connected state was asked for, the field was the number 2, and the
\* caller got true
C25_Witness ==
    /\ arg.op = "get_connected"
    /\ HasField(arg)
    /\ FieldValue(arg) = JNum(2)
    /\ call["dbus"].st = "returned"
    /\ call["dbus"].ret = Ok(TRUE)
    /\ chan = <<>>

IntegerOps == {"get_player_count", "get_index", "get_track_count"}

\* the integers whose number and whose decimal string are among the values
\* of the field
SmallIntegers == {n \in 0..9 : JNum(n) \in WideValues /\ JStr(ToDecimal(n)) \in WideValues}

\* C26 as stated: an integer query returns n for the number n and for the
\* decimal string of n, and fails on every other value of the field.
C26_OnlyNumberOrItsDecimalString ==
    (arg.op \in IntegerOps /\ HasField(arg)) =>
       LET v == FieldValue(arg)
       IN IF \E n \in SmallIntegers : v \in {JNum(n), JStr(ToDecimal(n))}
          THEN \A n \in SmallIntegers :
                  v \in {JNum(n), JStr(ToDecimal(n))} => Evaluates(Ok(n))
          ELSE Fails

\* C26: an integer query returns n for the number n and for a string that is
\* the decimal digits of n, also with zeros or one plus sign before them, and
\* fails on every other value of the field: a negative or non-integer
\* number, an empty string, a string with another character, and a value
\* that is neither number nor string.
C26_NumberOrDigitsWithPlus ==
    (arg.op \in IntegerOps /\ HasField(arg)) =>
       LET v == FieldValue(arg)
       IN IF \E n \in SmallIntegers : v \in {JNum(n), JStr(ToDecimal(n))}
          THEN \A n \in SmallIntegers :
                  v \in {JNum(n), JStr(ToDecimal(n))} => Evaluates(Ok(n))
          ELSE IF v \in {JStr(S_plus1), JStr(S_01)} THEN Evaluates(Ok(1))
          ELSE IF v.t = "string" THEN Evaluates(Err("ParseIntError"))
          ELSE IF v.t = "number" THEN Evaluates(Err("NotAnU64"))
          ELSE Evaluates(Err("WrongTopLevelType"))

\* the index was asked for, the field was the string "2", and the caller got 2
C26_Witness ==
    /\ arg.op = "get_index"
    /\ HasField(arg)
    /\ FieldValue(arg) = JStr(S_2)
    /\ call["dbus"].st = "returned"
    /\ call["dbus"].ret = Ok(2)

\* C27: a query that is none of artist, title and album, answered with an
\* object without the field it reads, fails: the missing field is sent to the
\* error channel and the caller gets the error of the operation.
C27_MissingKeyFailsOtherQueries ==
    (arg.op \in QueryOps \ OptionalOps /\ MissingKey(arg)) =>
       /\ Evaluates(Err("NoField"))
       /\ call["dbus"].st = "returned" =>
             /\ call["dbus"].sends = 1
             /\ sentLog # <<>>
             /\ sentLog[Len(sentLog)] = Cause("dbus", "NoField")

\* the players were asked for and the result was an empty object
C27_Witness ==
    /\ arg = [op |-> "get_players", reply |-> Body(JObj(EmptyMap))]
    /\ call["dbus"].st = "returned"
    /\ call["dbus"].ret = Err("Error get_players")
    /\ chan = <<Cause("dbus", "NoField")>>

(***************************************************************************)
(* Properties of the parser of the reply: the port, and what follows the   *)
(* version                                                                 *)
(***************************************************************************)
\* C28: a reply parses only if the text of its port is decimal digits whose
\* value is at most 65535 (the digits may follow zeros or one plus sign), and
\* the port of the reply is that value; an empty text, a text with another
\* character, a negative number and a number above 65535 do not parse.
C28_PortIsU16 ==
    (arg.order = InOrder /\ arg.cut = 0 /\ res # NotApplied) =>
       IF \E p \in Ports : arg.text = ToDecimal(p)
       THEN res.ok /\ arg.text = ToDecimal(res.val.val.port)
       ELSE IF arg.text \in {S_plus80, S_080}
       THEN res.ok /\ res.val.val.port = 80
       ELSE res = Err("MapRes")

\* the port of the reply is 65536, and the reply does not parse
C28_Witness ==
    /\ arg.order = InOrder /\ arg.cut = 0
    /\ arg.text = S_65536
    /\ res = Err("MapRes")

\* C29: what follows the version field changes nothing: a buffer with bytes
\* after the version, zeros or others, parses to the same four values as the
\* buffer that ends with the version.
C29_SuffixIsIgnored ==
    (arg.order = InOrder /\ arg.cut = 0 /\ arg.text = ToDecimal(arg.port)
     /\ res # NotApplied) =>
       LET alone == parse_reply(BufferOf([arg EXCEPT !.suffix = <<>>, !.padded = FALSE]))
       IN /\ alone.ok /\ alone.val.rest = <<>>
          /\ res.ok
          /\ res.val.val = alone.val.val

\* a reply followed by another hostname field, in the buffer of the socket
C29_Witness ==
    /\ arg.order = InOrder /\ arg.cut = 0
    /\ arg.suffix = Field(T_ENAME, S_h)
    /\ arg.padded
    /\ res.ok
    /\ res.val.val.port = arg.port
    /\ Len(res.val.rest) > Len(arg.suffix)

(***************************************************************************)
(* Properties of the field a query reads                                   *)
(***************************************************************************)
\* the reply holds a value under the name of the attribute the query asks for
HasBareKey(a) ==
    /\ a.reply.kind = "body"
    /\ a.reply.result.t = "object"
    /\ AttributeOf(a.op) \in DOMAIN a.reply.result.o

RequestFor(op, name) ==
    CASE op = "get_index" -> Req_index(name)[1]
      [] op = "get_track_count" -> Req_track_count(name)[1]
      [] op = "get_shuffle" -> Req_shuffle(name)[1]
      [] op = "get_mode" -> Req_mode(name)[1]
      [] op = "get_artist" -> Req_artist(name)[1]
      [] op = "get_title" -> Req_title(name)[1]
      [] op = "get_album" -> Req_album(name)[1]
      [] op = "play" -> Req_play(name)
      [] op = "stop" -> Req_stop(name)
      [] op = "pause" -> Req_pause(name)
      [] op = "play_pause" -> Req_play_pause(name)
      [] op = "previous" -> Req_previous(name)
      [] op = "next" -> Req_next(name)

\* the operations that name a player: those of the methods of MprisPlayer and
\* of the polling task
PlayerOps == {FirstOp(m) : m \in DbusMethods} \cup {MetadataOps[i] : i \in 1..Len(MetadataOps)}

\* C31: every request of a method of the presentation layer and of the polling
\* task names the player by the id the task was given for it, as it was given,
\* and not by the name of the player.
C31_RequestsNameTheId ==
    \A c \in {"poller", "dbus"} :
        call[c].st # "none" =>
           /\ call[c].op \in PlayerOps
           /\ call[c].target = player.player_id
           /\ call[c].target # player.player_name
           /\ RequestFor(call[c].op, call[c].target).params[1] = player.player_id

\* metadata is at its last query, for the index, and the polling task is in
\* its query of the mode, both for the player of id xyz
C31_Witness ==
    /\ player = [player_name |-> S_other, player_id |-> S_xyz]
    /\ hpc = [m |-> "metadata", step |-> 5]
    /\ call["dbus"].st = "posting"
    /\ call["dbus"].op = "get_index"
    /\ call["dbus"].target = S_xyz
    /\ call["poller"].st = "posting"
    /\ call["poller"].target = S_xyz

(***************************************************************************)
(* Properties of the mode the polling loop holds                           *)
(***************************************************************************)
\* the polls that succeeded, by their place in the history
Succeeded == {i \in 1..Len(polls) : polls[i] # "Err"}

\* the last of them
LastSucceeded == CHOOSE i \in Succeeded : \A k \in Succeeded : k <= i

C33_SocketErrorIsReturned ==
    [][/\ (dpc = "send" /\ dpc' \notin {"send", "recv"}) =>
             /\ dpc' = "returned" /\ dresult' = Err("Transport")
             /\ attempts' = attempts /\ probes' = probes /\ now' = now
       /\ (dpc = "recv" /\ dpc' = "returned" /\ rcvd' = rcvd) =>
             /\ dresult' = Err("Transport")
             /\ attempts' = attempts /\ probes' = probes /\ now' = now
       /\ (attempts # <<>> /\ attempts' # attempts) =>
             /\ dpc = "recv" /\ dpc' = "send"
             /\ now = Last(attempts) + reply_timeout
             /\ rcvd' = rcvd /\ dresult' = dresult
       /\ dpc = "returned" => attempts' = attempts /\ probes' = probes]_vars

\* discover has returned the error of recv_from in its second attempt, whose
\* probe was sent: the first attempt had timed out
C33_Witness ==
    /\ dpc = "returned"
    /\ dresult = Err("Transport")
    /\ Len(attempts) = 2
    /\ Len(probes) = 2
    /\ rcvd = <<>>

OfMetadata == res.asked # <<>> /\ res.asked[1] = "get_track_count"

\* it has been answered
Answered == hpc = Idle /\ res.answer # NoAnswer

C36_SuccessSendsNothing ==
    /\ [](/\ Len(sentLog) <= failures
          /\ \A c \in Tasks :
                (call[c].st = "returned" /\ call[c].inner.ok) =>
                   /\ call[c].ret = call[c].inner
                   /\ call[c].sends = 0
                   /\ \E reply \in Replies(fault, call[c].op) :
                         call[c].ret = Inner(call[c].op, call[c].target, reply)
          /\ outcome.by = "client error" =>
                /\ failures > 0
                /\ received # <<>>
                /\ received[1] = sentLog[1]
                /\ outcome.what = sentLog[1].err)
    /\ [][/\ \A c \in Tasks :
                (call[c].st = "posting" /\ call'[c].st # "posting" /\ call'[c].inner.ok) =>
                   /\ call'[c].st = "returned"
                   /\ chan' = chan /\ waiters' = waiters /\ sentLog' = sentLog
                   /\ received' = received /\ failures' = failures
                   /\ phase' = phase /\ outcome' = outcome
          /\ (phase = "Running" /\ phase' # "Running") =>
                /\ call' = call
                /\ outcome'.by = "client error" => chan # <<>> /\ failures > 0]_vars

\* the artist was asked for and the server left the field out: the call has
\* returned absent, nothing was sent and the supervising task goes on
C36_Witness ==
    /\ call["dbus"].st = "returned"
    /\ call["dbus"].op = "get_artist"
    /\ call["dbus"].ret = Ok(None)
    /\ sentLog = <<>>
    /\ failures = 0
    /\ phase = "Running"

(***************************************************************************)
(* Properties of the bytes of the buffer after the datagram                *)
(***************************************************************************)
\* discover has returned for a first datagram that is the reply or the reply
\* cut short
ReturnedForCut == rcvd # <<>> /\ dresult # None /\ rcvd[1] \in CutDatagrams

\* C37 as stated: what discover returns is what the bytes of the datagram
\* parse to: a datagram that does not hold a whole reply makes discover fail.
C37_OnlyReceivedBytesAreRead ==
    ReturnedForCut =>
       LET parsed == parse_reply(rcvd[1].payload)
       IN /\ dresult.ok = parsed.ok
          /\ dresult.ok => dresult.val.reply = parsed.val.val

\* C37: discover parses the whole buffer, in which zeros follow the datagram.
\* A datagram cut before the tag of the version is complete makes discover
\* fail, the zeros being no tag and no port.  A datagram cut after that tag
\* makes discover return a reply: its version is empty when the length byte
\* is missing, and else the bytes received of it followed by zeros up to the
\* declared length.  A whole reply gives the values it holds.
C37_ZerosOfTheBufferAreRead ==
    ReturnedForCut =>
       LET n == Len(rcvd[1].payload)
       IN IF n < VersionAt - 1 THEN ~dresult.ok
          ELSE /\ dresult.ok
               /\ dresult.val.ip = IP_A
               /\ dresult.val.reply.hostname = S_lms
               /\ dresult.val.reply.port = 9000
               /\ dresult.val.reply.uuid = S_u
               /\ dresult.val.reply.version =
                     IF n = VersionAt - 1 THEN <<>>
                     ELSE [i \in 1..Len(S_8_3_1) |->
                             IF VersionAt + i <= n THEN FullReply[VersionAt + i] ELSE 0]

\* the datagram ended after "8." of the version 8.3.1: discover has returned
\* a reply whose version is "8." and three zero bytes
C37_Witness ==
    /\ ReturnedForCut
    /\ Len(rcvd[1].payload) = VersionAt + 2
    /\ dresult.ok
    /\ dresult.val.reply.version = <<56, 46, 0, 0, 0>>

====
